---- MODULE Spec2Model ----
(***************************************************************************)
(* Model of the card detection pipeline (CardDetectorV2, part_000).        *)
(*                                                                         *)
(* Numbers.  The pipeline computes with IEEE doubles and Float32Array      *)
(* buffers.  The model computes with exact rationals <<n, d>> (d > 0,      *)
(* reduced); floating-point rounding is not modelled.  Buffers that hold   *)
(* multiples of 1/16 are kept as integers scaled by 16 (suffix 16), and a  *)
(* gradient magnitude sqrt(gx^2 + gy^2) is kept as its square (suffix 2),  *)
(* since the code only ever compares magnitudes.                           *)
(*                                                                         *)
(* Arrays.  A JS array a[0..n-1] is the tuple a with a[i+1] = JS a[i].     *)
(***************************************************************************)
EXTENDS Integers, Sequences, FiniteSets, TLC

----------------------------------------------------------------------------
(* Arithmetic helpers                                                      *)

Abs(a) == IF a < 0 THEN -a ELSE a

Min(a, b) == IF a < b THEN a ELSE b

Max(a, b) == IF a > b THEN a ELSE b

RECURSIVE Gcd(_, _)
Gcd(a, b) == IF b = 0 THEN a ELSE Gcd(b, a % b)

\* The rational n/d (d # 0) in lowest terms with a positive denominator.
Rat(n, d) ==
  LET g == Gcd(Abs(n), Abs(d))
      s == IF d < 0 THEN -1 ELSE 1
  IN  <<(s * n) \div g, (s * d) \div g>>

RInt(i) == <<i, 1>>

RAdd(a, b) == Rat(a[1] * b[2] + b[1] * a[2], a[2] * b[2])

RSub(a, b) == Rat(a[1] * b[2] - b[1] * a[2], a[2] * b[2])

RMul(a, b) == Rat(a[1] * b[1], a[2] * b[2])

RLess(a, b) == a[1] * b[2] < b[1] * a[2]

RLeq(a, b) == a[1] * b[2] <= b[1] * a[2]

\* Math.floor
RFloor(a) == a[1] \div a[2]

\* Math.ceil
RCeil(a) == -((-a[1]) \div a[2])

\* Math.round: the nearest integer, halves rounded up, floor(x + 1/2).
RRound(a) == (2 * a[1] + a[2]) \div (2 * a[2])

\* F applied to the value of v: v is computed once, as a const binding is.
With(v, F(_)) == CHOOSE r \in {F(x) : x \in {v}} : TRUE

\* A tuple of length n from a function on 1..n.
Arr(f, n) == SubSeq(f, 1, n)

\* JS a[i] for an in-range index.
At(a, i) == a[i + 1]

----------------------------------------------------------------------------
(* Utility helpers of the source                                           *)

clamp(v, lo, hi) == IF v < lo THEN lo ELSE IF v > hi THEN hi ELSE v

RClamp(v, lo, hi) == IF RLess(v, lo) THEN lo ELSE IF RLess(hi, v) THEN hi ELSE v

\* 1000 * luminance(r, g, b)
luminance1000(r, g, b) == 299 * r + 587 * g + 114 * b

\* The ascending sort of a sequence of rationals.
SortRat(arr) == SortSeq(arr, RLess)

median(arr) ==
  IF Len(arr) = 0 THEN RInt(0)
  ELSE With(SortRat(arr), LAMBDA sorted :
         LET mid == Len(sorted) \div 2     \* JS index
         IN  IF Len(sorted) % 2 = 0
             THEN RMul(RAdd(At(sorted, mid - 1), At(sorted, mid)), <<1, 2>>)
             ELSE At(sorted, mid))

----------------------------------------------------------------------------
(* Images.  A pixel is an index into Palette; the alpha channel is never   *)
(* read by the pipeline.  Every palette colour has an integer luminance,   *)
(* so the grayscale buffer holds integers.                                 *)

Palette == << <<0, 0, 0>>, <<255, 255, 255>>, <<150, 150, 150>>,
              <<200, 160, 20>>, <<0, 120, 40>>, <<90, 90, 90>> >>

\* Palette indices by name: black, white and silver/yellow of the classes of
\* classifyPixelColor; green and gray are classified "unknown".
P == [black |-> 1, white |-> 2, silver |-> 3, yellow |-> 4, green |-> 5,
      gray |-> 6]

PaletteExact ==
  \A p \in DOMAIN Palette :
     luminance1000(Palette[p][1], Palette[p][2], Palette[p][3]) % 1000 = 0

getPixel(data, w, x, y) ==
  LET c == Palette[At(data, y * w + x)]
  IN  [r |-> c[1], g |-> c[2], b |-> c[3]]

\* A w x h image showing a filled rectangle [l, r) x [t, b) of colour fg
\* on a background of colour bg.
RectImage(w, h, bg, fg, l, r, t, b) ==
  [w |-> w, h |-> h,
   data |-> Arr([j \in 1..(w * h) |->
                   LET x == (j - 1) % w
                       y == (j - 1) \div w
                   IN  IF x >= l /\ x < r /\ y >= t /\ y < b THEN fg ELSE bg],
                w * h)]

----------------------------------------------------------------------------
(* 1. Border colour detection                                              *)

classifyPixelColor(r, g, b) ==
  LET lum  == luminance1000(r, g, b)
      maxC == Max(r, Max(g, b))
      minC == Min(r, Min(g, b))
  IN  IF r > 170 /\ g > 150 /\ b < 120 /\ 2 * r > 3 * b /\ 10 * g > 13 * b
        THEN "yellow"
      ELSE IF maxC - minC < 35 /\ lum > 120000 /\ lum < 210000 THEN "silver"
      ELSE IF lum > 210000 /\ maxC - minC < 50 THEN "white"
      ELSE IF lum < 60000 THEN "black"
      ELSE "unknown"

BorderColors == {"black", "white", "yellow", "silver", "unknown"}

\* classifyPixelColor of each colour of the palette.
PaletteClass ==
  Arr([k \in 1..Len(Palette) |->
         classifyPixelColor(Palette[k][1], Palette[k][2], Palette[k][3])],
      Len(Palette))

\* classifyPixelColor(getPixel(data, w, x, y))
classifyAt(img, x, y) == PaletteClass[At(img.data, y * img.w + x)]

\* The values v = start, start + stride, ... with v < num/den: the
\* iterations of  for (v = start; v < dim * frac; v += stride).
LoopBelow(start, stride, num, den) ==
  {v \in start..(num \div den) : (v - start) % stride = 0 /\ v * den < num}

\* The tally of detectBorderColor's four sample strips.
sampleCounts(img) ==
  LET w == img.w
      h == img.h
      stride == Max(1, Min(w, h) \div 200)
      \* y of the left and right strips, x of the top and bottom strips
      ysSide == LoopBelow(h \div 20, stride, 19 * h, 20)
      xsLeft == LoopBelow(w \div 20, stride, 3 * w, 20)
      xsRight == LoopBelow((17 * w) \div 20, stride, 19 * w, 20)
      ysTop == LoopBelow(h \div 20, stride, 3 * h, 20)
      ysBottom == LoopBelow((17 * h) \div 20, stride, 19 * h, 20)
      xsMid == LoopBelow((3 * w) \div 20, stride, 17 * w, 20)
      n(xs, ys, c) == Cardinality({p \in xs \X ys : classifyAt(img, p[1], p[2]) = c})
  IN  [c \in BorderColors |->
         n(xsLeft, ysSide, c) + n(xsRight, ysSide, c)
         + n(xsMid, ysTop, c) + n(xsMid, ysBottom, c)]

CountTotal(counts) ==
  counts["black"] + counts["white"] + counts["yellow"] + counts["silver"]
  + counts["unknown"]

VoteOrder == <<"black", "white", "yellow", "silver">>

\* The loop of lines 137-144 after the first k colours of VoteOrder.
RECURSIVE bestAfter(_, _)
bestAfter(counts, k) ==
  IF k = 0 THEN [best |-> "unknown", bestCount |-> 0]
  ELSE LET prev == bestAfter(counts, k - 1)
           c    == VoteOrder[k]
       IN  IF counts[c] > prev.bestCount
           THEN [best |-> c, bestCount |-> counts[c]]
           ELSE prev

\* Variant of AboveFifth: confidence >= 0.2
AboveFifthInclusive(conf) == 5 * conf[1] >= conf[2]

\* confidence > 0.2
AboveFifth(conf) == 5 * conf[1] > conf[2]

\* Lines 134-147 of detectBorderColor, on the tally of the samples.
borderVote(counts) ==
  LET total == CountTotal(counts)
  IN  IF total = 0 THEN [color |-> "unknown", confidence |-> RInt(0)]
      ELSE LET b == bestAfter(counts, 4)
               confidence == Rat(b.bestCount, total)
           IN  [color |-> IF AboveFifth(confidence) THEN b.best ELSE "unknown",
                confidence |-> confidence]

detectBorderColor(img) == borderVote(sampleCounts(img))

----------------------------------------------------------------------------
(* 2. Edge detection (Sobel + thresholding)                                *)

toGrayscale(img) ==
  Arr([j \in 1..(img.w * img.h) |->
         LET c == Palette[img.data[j]]
         IN  luminance1000(c[1], c[2], c[3]) \div 1000],
      img.w * img.h)

\* 16 * gaussianBlur3x3(gray, w, h): the output buffer starts at 0 and only
\* the interior pixels are written.
gaussianBlur3x3(gray, w, h) ==
  Arr([j \in 1..(w * h) |->
         LET x == (j - 1) % w
             y == (j - 1) \div w
         IN  IF x < 1 \/ x >= w - 1 \/ y < 1 \/ y >= h - 1 THEN 0
             ELSE gray[j - w - 1] + 2 * gray[j - w] + gray[j - w + 1]
                  + 2 * gray[j - 1] + 4 * gray[j] + 2 * gray[j + 1]
                  + gray[j + w - 1] + 2 * gray[j + w] + gray[j + w + 1]],
      w * h)

\* sobelEdges on the blurred buffer: mag2 = (16 mag)^2, dirH = 16 |gy|,
\* dirV = 16 |gx|; the three buffers start at 0 and only the interior
\* pixels are written.
sobelEdges(g, w, h) ==
  LET interior(j) == LET x == (j - 1) % w
                         y == (j - 1) \div w
                     IN  x >= 1 /\ x < w - 1 /\ y >= 1 /\ y < h - 1
      gxOf == Arr([j \in 1..(w * h) |->
                   IF ~interior(j) THEN 0
                   ELSE -g[j - w - 1] + g[j - w + 1]
                        - 2 * g[j - 1] + 2 * g[j + 1]
                        - g[j + w - 1] + g[j + w + 1]], w * h)
      gyOf == Arr([j \in 1..(w * h) |->
                   IF ~interior(j) THEN 0
                   ELSE -g[j - w - 1] - 2 * g[j - w] - g[j - w + 1]
                        + g[j + w - 1] + 2 * g[j + w] + g[j + w + 1]], w * h)
  IN  With(<<gxOf, gyOf>>, LAMBDA d :
        [mag2 |-> Arr([j \in 1..(w * h) |->
                         d[1][j] * d[1][j] + d[2][j] * d[2][j]], w * h),
         dirH |-> Arr([j \in 1..(w * h) |-> Abs(d[2][j])], w * h),
         dirV |-> Arr([j \in 1..(w * h) |-> Abs(d[1][j])], w * h)])

----------------------------------------------------------------------------
(* 3. Find 4 card edges via edge scanning                                  *)

RDiv(a, b) == Rat(a[1] * b[2], a[2] * b[1])

RAbs(a) == <<Abs(a[1]), a[2]>>

CARD_ASPECT == <<5, 7>>

\* (16 * 30)^2: the fallback threshold 30 in the units of mag2.
FallbackThreshold2 == 230400

SetMin(S) == CHOOSE m \in S : \A x \in S : m <= x

SetMax(S) == CHOOSE m \in S : \A x \in S : m >= x

\* JS index k of the ascending sort of the sequence s of integers.
sortedAt(s, k) ==
  LET n == Len(s)
  IN  CHOOSE v \in {s[i] : i \in 1..n} :
        /\ Cardinality({i \in 1..n : s[i] < v}) <= k
        /\ k < Cardinality({i \in 1..n : s[i] <= v})

\* Variant of threshold2: the median of the non-zero magnitudes.
threshold2Median(mag2) ==
  With(SelectSeq(mag2, LAMBDA v : v > 0), LAMBDA sorted :
    IF Len(sorted) > 0 THEN sortedAt(sorted, Len(sorted) \div 2)
    ELSE FallbackThreshold2)

\* Lines 226-227: the square of 16 * threshold.
threshold2(mag2) ==
  With(SelectSeq(mag2, LAMBDA v : v > 0), LAMBDA sorted :
    IF Len(sorted) > 0 THEN sortedAt(sorted, (17 * Len(sorted)) \div 20)
    ELSE FallbackThreshold2)

\* Variant of isNearBorderColor: only the border colour itself is accepted.
isNearBorderColorExact(img, borderColor, x, y) ==
  \/ borderColor = "unknown"
  \/ classifyAt(img, clamp(x, 0, img.w - 1), clamp(y, 0, img.h - 1)) = borderColor

isNearBorderColor(img, borderColor, x, y) ==
  \/ borderColor = "unknown"
  \/ LET c == classifyAt(img, clamp(x, 0, img.w - 1), clamp(y, 0, img.h - 1))
     IN  c = borderColor \/ c = "unknown"

\* The scan lines  for (v = margin; v < dim - margin; v += 2), in order.
scanLines(margin, dim) ==
  LET n == IF dim - margin > margin THEN ((dim - 2 * margin - 1) \div 2) + 1 ELSE 0
  IN  [k \in 1..n |-> margin + 2 * (k - 1)]

\* The points of the scan lines that have a hit, in scan order; hit(v) is the
\* set of candidate positions on line v and pick chooses the first one met.
collect(lines, hit(_), pick(_)) ==
  LET pts == [k \in 1..Len(lines) |->
                LET c == hit(lines[k]) IN IF c = {} THEN -1 ELSE pick(c)]
  IN  SelectSeq(Arr(pts, Len(lines)), LAMBDA v : v >= 0)

\* Lines 232-293: the edge points of the four sides.
scanPoints(mag2, dirH, dirV, w, h, borderColor, img) ==
  With(threshold2(mag2), LAMBDA thr2 :
  LET marginX == (3 * w) \div 100
      marginY == (3 * h) \div 100
      strongV(x, y) == At(dirV, y * w + x) * At(dirV, y * w + x) > thr2
      strongH(x, y) == At(dirH, y * w + x) * At(dirH, y * w + x) > thr2
      near(x, y) == isNearBorderColor(img, borderColor, x, y)
      rows == scanLines(marginY, h)
      cols == scanLines(marginX, w)
      hitLeft(y) == {x \in marginX..(w - 1) :
                       5 * x < 2 * w /\ strongV(x, y) /\ near(x - 2, y)}
      hitRight(y) == {x \in 0..(w - marginX - 1) :
                       5 * x > 3 * w /\ strongV(x, y) /\ near(x + 2, y)}
      hitTop(x) == {y \in marginY..(h - 1) :
                       5 * y < 2 * h /\ strongH(x, y) /\ near(x, y - 2)}
      hitBottom(x) == {y \in 0..(h - marginY - 1) :
                       5 * y > 3 * h /\ strongH(x, y) /\ near(x, y + 2)}
  IN  [left   |-> collect(rows, hitLeft, SetMin),
       right  |-> collect(rows, hitRight, SetMax),
       top    |-> collect(cols, hitTop, SetMin),
       bottom |-> collect(cols, hitBottom, SetMax)])

RatSeq(s) == Arr([i \in 1..Len(s) |-> RInt(s[i])], Len(s))

\* |detectedAspect - CARD_ASPECT| > 0.15, with JS division by zero:
\* x/0 is +-Infinity for x # 0 and NaN for x = 0.
aspectOff(detectedW, detectedH) ==
  IF detectedH[1] = 0 THEN detectedW[1] # 0
  ELSE RLess(<<3, 20>>, RAbs(RSub(RDiv(detectedW, detectedH), CARD_ASPECT)))

\* Variant of aggregated: five points are enough for the median.
aggregatedFromFive(w, h, pts) ==
  [left   |-> IF Len(pts.left) > 4 THEN median(RatSeq(pts.left)) ELSE Rat(w, 20),
   right  |-> IF Len(pts.right) > 4 THEN median(RatSeq(pts.right)) ELSE Rat(19 * w, 20),
   top    |-> IF Len(pts.top) > 4 THEN median(RatSeq(pts.top)) ELSE Rat(h, 20),
   bottom |-> IF Len(pts.bottom) > 4 THEN median(RatSeq(pts.bottom)) ELSE Rat(19 * h, 20)]

\* Lines 296-299: the four sides before the aspect constraint.
aggregated(w, h, pts) ==
  [left   |-> IF Len(pts.left) > 5 THEN median(RatSeq(pts.left)) ELSE Rat(w, 20),
   right  |-> IF Len(pts.right) > 5 THEN median(RatSeq(pts.right)) ELSE Rat(19 * w, 20),
   top    |-> IF Len(pts.top) > 5 THEN median(RatSeq(pts.top)) ELSE Rat(h, 20),
   bottom |-> IF Len(pts.bottom) > 5 THEN median(RatSeq(pts.bottom)) ELSE Rat(19 * h, 20)]

\* Variant of aspectCorrected: with as many points on the left and right
\* sides as on the top and bottom ones, the vertical axis is adjusted.
aspectCorrectedTieVertical(e, pts) ==
  LET detectedW == RSub(e.right, e.left)
      detectedH == RSub(e.bottom, e.top)
  IN  IF ~aspectOff(detectedW, detectedH) THEN e
      ELSE IF Len(pts.left) + Len(pts.right) >= Len(pts.top) + Len(pts.bottom)
      THEN LET expectedH == RDiv(detectedW, CARD_ASPECT)
               centerY   == RMul(RAdd(e.top, e.bottom), <<1, 2>>)
           IN  [e EXCEPT !.top = RSub(centerY, RMul(expectedH, <<1, 2>>)),
                         !.bottom = RAdd(centerY, RMul(expectedH, <<1, 2>>))]
      ELSE LET expectedW == RMul(detectedH, CARD_ASPECT)
               centerX   == RMul(RAdd(e.left, e.right), <<1, 2>>)
           IN  [e EXCEPT !.left = RSub(centerX, RMul(expectedW, <<1, 2>>)),
                         !.right = RAdd(centerX, RMul(expectedW, <<1, 2>>))]

\* Lines 301-320: the aspect ratio constraint.
aspectCorrected(e, pts) ==
  LET detectedW == RSub(e.right, e.left)
      detectedH == RSub(e.bottom, e.top)
  IN  IF ~aspectOff(detectedW, detectedH) THEN e
      ELSE IF Len(pts.left) + Len(pts.right) > Len(pts.top) + Len(pts.bottom)
      THEN LET expectedH == RDiv(detectedW, CARD_ASPECT)
               centerY   == RMul(RAdd(e.top, e.bottom), <<1, 2>>)
           IN  [e EXCEPT !.top = RSub(centerY, RMul(expectedH, <<1, 2>>)),
                         !.bottom = RAdd(centerY, RMul(expectedH, <<1, 2>>))]
      ELSE LET expectedW == RMul(detectedH, CARD_ASPECT)
               centerX   == RMul(RAdd(e.left, e.right), <<1, 2>>)
           IN  [e EXCEPT !.left = RSub(centerX, RMul(expectedW, <<1, 2>>)),
                         !.right = RAdd(centerX, RMul(expectedW, <<1, 2>>))]

\* Lines 322-326: rounding and clamping to the image.
clampedEdges(e, w, h) ==
  [left   |-> RInt(clamp(RRound(e.left), 0, w - 1)),
   right  |-> RInt(clamp(RRound(e.right), 0, w - 1)),
   top    |-> RInt(clamp(RRound(e.top), 0, h - 1)),
   bottom |-> RInt(clamp(RRound(e.bottom), 0, h - 1))]

\* Lines 328-331.
edgeConfidence(w, h, pts) ==
  LET totalFound == Len(pts.left) + Len(pts.right) + Len(pts.top) + Len(pts.bottom)
  IN  RClamp(Rat(2 * totalFound, h + w), RInt(0), RInt(1))

\* Lines 295-333 of findCardEdges, on the collected points.
edgesFromPoints(w, h, pts) ==
  [edges |-> clampedEdges(aspectCorrected(aggregated(w, h, pts), pts), w, h),
   confidence |-> edgeConfidence(w, h, pts)]

findCardEdges(mag2, dirH, dirV, w, h, borderColor, img) ==
  edgesFromPoints(w, h, scanPoints(mag2, dirH, dirV, w, h, borderColor, img))

----------------------------------------------------------------------------
(* 4. Corner refinement from edges                                         *)

\* Variant of cornersFromEdges: the corners are listed counter-clockwise.
cornersFromEdgesCounter(edges) ==
  << [x |-> edges.left,  y |-> edges.top],
     [x |-> edges.left,  y |-> edges.bottom],
     [x |-> edges.right, y |-> edges.bottom],
     [x |-> edges.right, y |-> edges.top] >>

cornersFromEdges(edges) ==
  << [x |-> edges.left,  y |-> edges.top],
     [x |-> edges.right, y |-> edges.top],
     [x |-> edges.right, y |-> edges.bottom],
     [x |-> edges.left,  y |-> edges.bottom] >>

searchRadius == 15

\* refineCorner with the two loops exchanged: columns outside, rows inside.
refineCornerColumnFirst(corner, mag2, w, h) ==
  LET R == searchRadius
      cx == RRound(corner.x)
      cy == RRound(corner.y)
      inside == (Max(-R, -cy)..Min(R, h - 1 - cy)) \X (Max(-R, -cx)..Min(R, w - 1 - cx))
      m(d) == At(mag2, (cy + d[1]) * w + cx + d[2])
      topOf == With(SetMax({m(d) : d \in inside} \cup {0}), LAMBDA bestMag :
                 {d \in inside : bestMag > 0 /\ m(d) = bestMag})
  IN  With(topOf, LAMBDA top :
        LET dx == SetMin({d[2] : d \in top})
            dy == SetMin({d[1] : d \in {e \in top : e[2] = dx}})
        IN  IF top = {} THEN corner
            ELSE [x |-> RInt(cx + dx), y |-> RInt(cy + dy)])

\* One iteration of corners.map in refineCorners.  The offsets are visited
\* row by row (dy, then dx) and a pixel replaces the best one only when its
\* magnitude is strictly greater, so the first maximum in scan order wins;
\* with no magnitude above 0 in the window the corner is returned as given.
refineCorner(corner, mag2, w, h) ==
  LET R == searchRadius
      cx == RRound(corner.x)
      cy == RRound(corner.y)
      \* Math.round(corner.x + dx) = Math.round(corner.x) + dx
      nx(dx) == cx + dx
      ny(dy) == cy + dy
      inside == (Max(-R, -cy)..Min(R, h - 1 - cy)) \X (Max(-R, -cx)..Min(R, w - 1 - cx))
      m(d) == At(mag2, ny(d[1]) * w + nx(d[2]))
      topOf == With(SetMax({m(d) : d \in inside} \cup {0}), LAMBDA bestMag :
                 {d \in inside : bestMag > 0 /\ m(d) = bestMag})
  IN  With(topOf, LAMBDA top :
        LET dy == SetMin({d[1] : d \in top})
            dx == SetMin({d[2] : d \in {e \in top : e[1] = dy}})
        IN  IF top = {} THEN corner
            ELSE [x |-> RInt(nx(dx)), y |-> RInt(ny(dy))])

refineCorners(corners, mag2, w, h) ==
  [k \in 1..4 |-> refineCorner(corners[k], mag2, w, h)]

----------------------------------------------------------------------------
(* 6. Sub-pixel edge fitting                                               *)

numSamples == 30

stripLen == 20

\* Variant of subpixelEdgePosition: the last greatest central difference is
\* taken instead of the first.
subpixelEdgePositionLast(strip) ==
  LET n == Len(strip)
      grad(i) == Abs(At(strip, i + 1) - At(strip, i - 1))
      inner == 1..(n - 2)
      maxOf == IF inner = {} THEN 0 ELSE SetMax({grad(i) : i \in inner} \cup {0})
      maxIdx == With(maxOf, LAMBDA maxGrad :
                  IF maxGrad = 0 THEN 0
                  ELSE SetMax({i \in inner : grad(i) = maxGrad}))
  IN  IF n < 3 THEN Rat(n, 2)
      ELSE IF maxIdx <= 0 \/ maxIdx >= n - 1 THEN RInt(maxIdx)
      ELSE LET gPrev == Abs(At(strip, maxIdx) - At(strip, maxIdx - 1))
               gNext == Abs(At(strip, maxIdx + 1) - At(strip, maxIdx))
               denom == gPrev + gNext
           IN  IF 100 * denom < 16 THEN RInt(maxIdx)
               ELSE RAdd(RInt(maxIdx),
                         RClamp(Rat(gNext - gPrev, 2 * denom), <<-1, 2>>, <<1, 2>>))

\* subpixelEdgePosition on a strip of the blurred buffer (values scaled by
\* 16; denom < 0.01 is 100 * (16 denom) < 16).
subpixelEdgePosition(strip) ==
  LET n == Len(strip)
      grad(i) == Abs(At(strip, i + 1) - At(strip, i - 1))
      inner == 1..(n - 2)
      maxOf == IF inner = {} THEN 0 ELSE SetMax({grad(i) : i \in inner} \cup {0})
      maxIdx == With(maxOf, LAMBDA maxGrad :
                  IF maxGrad = 0 THEN 0
                  ELSE SetMin({i \in inner : grad(i) = maxGrad}))
  IN  IF n < 3 THEN Rat(n, 2)
      ELSE IF maxIdx <= 0 \/ maxIdx >= n - 1 THEN RInt(maxIdx)
      ELSE LET gPrev == Abs(At(strip, maxIdx) - At(strip, maxIdx - 1))
               gNext == Abs(At(strip, maxIdx + 1) - At(strip, maxIdx))
               denom == gPrev + gNext
           IN  IF 100 * denom < 16 THEN RInt(maxIdx)
               ELSE RAdd(RInt(maxIdx),
                         RClamp(Rat(gNext - gPrev, 2 * denom), <<-1, 2>>, <<1, 2>>))

\* The 30 estimates of one side: c is the coarse position of the side, dim
\* the image size across the side, (a, b) the extent of the side along it
\* and read(along, across) the buffer value.
sideSubs(c, dim, a, b, read(_, _)) ==
  Arr([i \in 1..numSamples |->
     LET along == RFloor(RAdd(a, RMul(RSub(b, a), Rat(i, numSamples + 1))))
         start == Max(0, RRound(c) - stripLen)
         end   == Min(dim - 1, RRound(c) + stripLen)
         len   == Max(0, end - start + 1)
     IN  With(Arr([k \in 1..len |-> read(along, start + k - 1)], len),
              LAMBDA strip : RAdd(RInt(start), subpixelEdgePosition(strip)))],
      numSamples)

\* Variant of measureEdgesSubpixel: the position in the strip is returned
\* without the start of the strip added to it.
measureEdgesSubpixelRelative(gray, w, h, edges) ==
  LET row(y, x) == At(gray, y * w + x)
      col(x, y) == At(gray, y * w + x)
      start(c) == RInt(Max(0, RRound(c) - stripLen))
  IN  [left   |-> RSub(median(sideSubs(edges.left, w, edges.top, edges.bottom, row)),
                       start(edges.left)),
       right  |-> RSub(median(sideSubs(edges.right, w, edges.top, edges.bottom, row)),
                       start(edges.right)),
       top    |-> RSub(median(sideSubs(edges.top, h, edges.left, edges.right, col)),
                       start(edges.top)),
       bottom |-> RSub(median(sideSubs(edges.bottom, h, edges.left, edges.right, col)),
                       start(edges.bottom))]

\* The indices of the buffer read for the 30 strips of one side, strip by
\* strip (lines 610-617 and their three repetitions): the side lies at c
\* across a dimension of size dim and extends from a to b; the strips of the
\* left and right sides run along rows, those of the top and bottom sides
\* along columns.
stripIndices(c, dim, a, b, w, alongRows) ==
  Arr([i \in 1..numSamples |->
     LET along == RFloor(RAdd(a, RMul(RSub(b, a), Rat(i, numSamples + 1))))
         start == Max(0, RRound(c) - stripLen)
         end   == Min(dim - 1, RRound(c) + stripLen)
         len   == Max(0, end - start + 1)
     IN  Arr([k \in 1..len |-> IF alongRows THEN along * w + start + k - 1
                               ELSE (start + k - 1) * w + along], len)],
      numSamples)

measureEdgesSubpixel(gray, w, h, edges) ==
  LET row(y, x) == At(gray, y * w + x)
      col(x, y) == At(gray, y * w + x)
  IN  [left   |-> median(sideSubs(edges.left, w, edges.top, edges.bottom, row)),
       right  |-> median(sideSubs(edges.right, w, edges.top, edges.bottom, row)),
       top    |-> median(sideSubs(edges.top, h, edges.left, edges.right, col)),
       bottom |-> median(sideSubs(edges.bottom, h, edges.left, edges.right, col))]

----------------------------------------------------------------------------
(* 7. Perspective correction: the decisions of perspectiveCorrect          *)

\* floor(16 * sqrt(a)) for a rational a >= 0.
FloorSqrt16(a) ==
  CHOOSE m \in 0..(16 * (RCeil(a) + 1)) :
    /\ m * m * a[2] <= 256 * a[1]
    /\ (m + 1) * (m + 1) * a[2] > 256 * a[1]

\* sqrt(a) + sqrt(b) >= q for rationals a, b >= 0, decided without roots:
\* by the sixteenths below the two roots where they settle it, else exactly
\* (q <= 0, or e = q^2 - a - b <= 0, or 4ab >= e^2).
SqrtSumGeq(a, b, q) ==
  LET lo == FloorSqrt16(a) + FloorSqrt16(b)
      e  == RSub(RSub(RMul(q, q), a), b)
  IN  IF RLeq(q, Rat(lo, 16)) THEN TRUE
      ELSE IF RLeq(Rat(lo + 2, 16), q) THEN FALSE
      ELSE \/ RLeq(q, RInt(0))
           \/ RLeq(e, RInt(0))
           \/ RLeq(RMul(e, e), RMul(RInt(4), RMul(a, b)))

\* Math.round((sqrt(a) + sqrt(b)) / 2)
RoundHalfSqrtSum(a, b) ==
  CHOOSE k \in 0..(RCeil(a) + RCeil(b) + 1) :
    /\ SqrtSumGeq(a, b, RInt(2 * k - 1))
    /\ ~SqrtSumGeq(a, b, RInt(2 * k + 1))

\* Squared length of the side from corner p to corner q (Math.hypot squared).
hypot2(p, q) ==
  LET dx == RSub(q.x, p.x)
      dy == RSub(q.y, p.y)
  IN  RAdd(RMul(dx, dx), RMul(dy, dy))

\* tan(0.035) = 0.0350143..., bracketed by rationals the coordinates of the
\* model cannot fall between.
TanSkew == <<3501, 100000>>

\* Math.abs(Math.atan2(across, along)) < 0.035
angleBelowSkew(across, along) ==
  \/ across = RInt(0) /\ along = RInt(0)
  \/ /\ RLess(RInt(0), along)
     /\ RLeq(RAbs(across), RMul(TanSkew, along))

\* Variant of skewBelowLimit: only the top and bottom sides are measured.
skewBelowLimitHorizontal(corners) ==
  /\ angleBelowSkew(RSub(corners[2].y, corners[1].y), RSub(corners[2].x, corners[1].x))
  /\ angleBelowSkew(RSub(corners[3].y, corners[4].y), RSub(corners[3].x, corners[4].x))

\* maxSkew < 0.035 (lines 468-485)
skewBelowLimit(corners) ==
  /\ angleBelowSkew(RSub(corners[2].y, corners[1].y), RSub(corners[2].x, corners[1].x))
  /\ angleBelowSkew(RSub(corners[3].y, corners[4].y), RSub(corners[3].x, corners[4].x))
  /\ angleBelowSkew(RSub(corners[4].x, corners[1].x), RSub(corners[4].y, corners[1].y))
  /\ angleBelowSkew(RSub(corners[3].x, corners[2].x), RSub(corners[3].y, corners[2].y))

\* Output size (lines 487-502): outW, outH.
outputSize(corners) ==
  LET topW2    == hypot2(corners[1], corners[2])
      bottomW2 == hypot2(corners[4], corners[3])
      leftH2   == hypot2(corners[1], corners[4])
      rightH2  == hypot2(corners[2], corners[3])
      outW0 == RoundHalfSqrtSum(topW2, bottomW2)
      outH0 == RRound(RDiv(RInt(outW0), CARD_ASPECT))
      tooTall == ~SqrtSumGeq(leftH2, rightH2, Rat(20 * outH0, 13))
      outH1 == RoundHalfSqrtSum(leftH2, rightH2)
  IN  IF tooTall THEN [w |-> RRound(RMul(RInt(outH1), CARD_ASPECT)), h |-> outH1]
      ELSE [w |-> outW0, h |-> outH0]

\* What the environment does to a call: the canvas operation that fails (or
\* "none"), and which raster the rectified canvas holds when it is read.
Faults ==
  {"none", "ctxNull", "resampleThrows", "corrCtxNull", "corrReadThrows",
   "gradientThrows", "locateThrows", "subpixelThrows"}

\* perspectiveCorrect (lines 462-562): "null", "throw" or a canvas of the
\* output size.  Fault "ctxNull" is getContext returning null for either
\* canvas; createImageData throws on a zero-sized output.
perspectiveCorrect(corners, fault) ==
  IF skewBelowLimit(corners) THEN [kind |-> "null", w |-> 0, h |-> 0]
  ELSE LET out == outputSize(corners)
       IN  IF fault = "ctxNull"
             THEN [kind |-> "null", w |-> 0, h |-> 0]
           ELSE IF fault = "resampleThrows" \/ out.w = 0 \/ out.h = 0
             THEN [kind |-> "throw", w |-> 0, h |-> 0]
           ELSE [kind |-> "canvas", w |-> out.w, h |-> out.h]

\* The rasters a rectified canvas of size w x h may hold (the resampled
\* pixel values are left open): a uniform one and one with a centred
\* rectangle, over two colours of the palette.
RasterChoices == {1, 2}

RectifiedRaster(w, h, k) ==
  IF k = 1 THEN RectImage(w, h, P.black, P.black, 0, 0, 0, 0)
  ELSE RectImage(w, h, P.black, P.white,
                 w \div 4, w - (w \div 4), h \div 4, h - (h \div 4))

----------------------------------------------------------------------------
(* 8. Background analysis                                                  *)

\* Decimal digits of a natural number, as template-literal formatting
\* produces them, and parseInt of a digit string.
RECURSIVE Digits(_)
Digits(n) == IF n < 10 THEN <<n>> ELSE Append(Digits(n \div 10), n % 10)

RECURSIVE parseInt(_)
parseInt(ds) ==
  IF Len(ds) = 0 THEN 0
  ELSE 10 * parseInt(SubSeq(ds, 1, Len(ds) - 1)) + ds[Len(ds)]

\* The grid a region loop visits: from max(0, lo) while below min(dim, hi).
regionSteps(lo, hi, dim, stride) ==
  {v \in Max(0, lo)..(Min(dim, hi) - 1) : (v - Max(0, lo)) % stride = 0}

\* The text bg_lum:<digits>,bg_color:<class> of line 718.
bgInfoText(lum, color) == [null |-> FALSE, lum |-> Digits(lum), color |-> color]

\* analyzeBackground (lines 678-719): "null" when nothing was sampled, else
\* the text bg_lum:<digits>,bg_color:<class>.
analyzeBackground(img, edges) ==
  LET w == img.w
      h == img.h
      stride == Max(2, Min(w, h) \div 100)
      xLo == RFloor(RMul(edges.left, Rat(4, 5)))
      yLo == RFloor(RMul(edges.top, Rat(4, 5)))
      xHi == RCeil(RAdd(edges.right, RMul(RSub(RInt(w), edges.right), Rat(1, 5))))
      yHi == RCeil(RAdd(edges.bottom, RMul(RSub(RInt(h), edges.bottom), Rat(1, 5))))
      xs1 == regionSteps(0, xLo, w, stride)
      xs2 == regionSteps(xHi, w, w, stride)
      ys1 == regionSteps(0, yLo, h, stride)
      ys2 == regionSteps(yHi, h, h, stride)
      cells == <<xs1 \X ys1, xs2 \X ys1, xs1 \X ys2, xs2 \X ys2>>
      count == Cardinality(cells[1]) + Cardinality(cells[2])
               + Cardinality(cells[3]) + Cardinality(cells[4])
      colourCount(c) ==
        Cardinality({q \in cells[1] : At(img.data, q[2] * w + q[1]) = c})
        + Cardinality({q \in cells[2] : At(img.data, q[2] * w + q[1]) = c})
        + Cardinality({q \in cells[3] : At(img.data, q[2] * w + q[1]) = c})
        + Cardinality({q \in cells[4] : At(img.data, q[2] * w + q[1]) = c})
      tally == [c \in 1..Len(Palette) |-> colourCount(c)]
      RECURSIVE chanSum(_, _)
      chanSum(k, c) ==
        IF c = 0 THEN 0 ELSE tally[c] * Palette[c][k] + chanSum(k, c - 1)
      rSum == chanSum(1, Len(Palette))
      gSum == chanSum(2, Len(Palette))
      bSum == chanSum(3, Len(Palette))
      avgLum == Rat(299 * rSum + 587 * gSum + 114 * bSum, 1000 * count)
      bgColor == classifyPixelColor(RRound(Rat(rSum, count)),
                                    RRound(Rat(gSum, count)),
                                    RRound(Rat(bSum, count)))
  IN  IF count = 0 THEN [null |-> TRUE, lum |-> <<>>, color |-> "unknown"]
      ELSE bgInfoText(RRound(avgLum), bgColor)

\* Variant of getBackgroundRecommendation: the band of a black border
\* includes 100.
getBackgroundRecommendationInclusive(borderColor, bgInfo) ==
  IF bgInfo.null THEN "null"
  ELSE LET bgLum == IF Len(bgInfo.lum) > 0 THEN parseInt(bgInfo.lum) ELSE 128
       IN  CASE borderColor = "black"  -> IF bgLum <= 100 THEN "black" ELSE "null"
             [] borderColor = "white"  -> IF bgLum > 180 THEN "white" ELSE "null"
             [] borderColor = "yellow" ->
                  IF bgLum > 140 /\ bgLum < 220 THEN "yellow" ELSE "null"
             [] borderColor = "silver" ->
                  IF bgLum > 130 /\ bgLum < 200 THEN "silver" ELSE "null"
             [] OTHER -> "null"

\* getBackgroundRecommendation (lines 721-746): the recommendation text is
\* abstracted to the border colour it is written for; "null" is no text.
getBackgroundRecommendation(borderColor, bgInfo) ==
  IF bgInfo.null THEN "null"
  ELSE LET bgLum == IF Len(bgInfo.lum) > 0 THEN parseInt(bgInfo.lum) ELSE 128
       IN  CASE borderColor = "black"  -> IF bgLum < 100 THEN "black" ELSE "null"
             [] borderColor = "white"  -> IF bgLum > 180 THEN "white" ELSE "null"
             [] borderColor = "yellow" ->
                  IF bgLum > 140 /\ bgLum < 220 THEN "yellow" ELSE "null"
             [] borderColor = "silver" ->
                  IF bgLum > 130 /\ bgLum < 200 THEN "silver" ELSE "null"
             [] OTHER -> "null"

----------------------------------------------------------------------------
(* 9. Main pipeline: the stages of CardDetectorV2.analyzeCard              *)

\* BUILD_GRADIENT on a raster: grayscale, blur, Sobel.
buildGradient(img) ==
  With(toGrayscale(img), LAMBDA gray :
    With(gaussianBlur3x3(gray, img.w, img.h), LAMBDA blurred :
      [gray |-> gray, blurred |-> blurred,
       sobel |-> sobelEdges(blurred, img.w, img.h)]))

\* LOCATE_EDGES on a raster with its gradient field.
locateEdges(img, sobel, borderColor) ==
  findCardEdges(sobel.mag2, sobel.dirH, sobel.dirV, img.w, img.h, borderColor, img)

\* Variant of overallConfidence: the weights exchanged.
overallConfidenceSwapped(colorConfidence, edgeConf) ==
  RClamp(RAdd(RMul(colorConfidence, <<7, 10>>), RMul(edgeConf, <<3, 10>>)),
         RInt(0), RInt(1))

\* Lines 819-829: overall confidence and method tag.
overallConfidence(colorConfidence, edgeConf) ==
  RClamp(RAdd(RMul(colorConfidence, <<3, 10>>), RMul(edgeConf, <<7, 10>>)),
         RInt(0), RInt(1))

detectionMethod(perspectiveCorrected) ==
  IF perspectiveCorrected THEN "V2-Perspective-Corrected" ELSE "V2-Edge-Detection"

\* Lines 831-842: the returned V2Result.
composeResult(finalEdges, rawCorners, correctedCanvas, borderColor, confidence, perspectiveCorrected, backgroundRecommendation) ==
  [edges |-> finalEdges,
   corners |-> rawCorners,
   correctedCanvas |-> correctedCanvas,
   info |-> [borderColor |-> borderColor,
             confidence |-> confidence,
             perspectiveCorrected |-> perspectiveCorrected,
             backgroundRecommendation |-> backgroundRecommendation,
             detectionMethod |-> detectionMethod(perspectiveCorrected)]]

\* A canvas that does not exist.
NullCanvas == [null |-> TRUE, w |-> 0, h |-> 0]

\* A canvas element of the given size; its pixels are what the environment
\* returns when they are read.
Canvas(w, h) == [null |-> FALSE, w |-> w, h |-> h]

\* Lines 767-785: everything analyzeCard computes before the try block.
firstPass(img) ==
  With(detectBorderColor(img), LAMBDA border :
    With(buildGradient(img), LAMBDA grad :
      With(locateEdges(img, grad.sobel, border.color), LAMBDA found :
        With(measureEdgesSubpixel(grad.blurred, img.w, img.h, found.edges),
             LAMBDA edges :
          [imageData |-> img, borderColor |-> border.color,
           colorConfidence |-> border.confidence, rawEdges |-> found.edges,
           edgeConfidence |-> found.confidence, edges |-> edges,
           rawCorners |-> refineCorners(cornersFromEdges(edges), grad.sobel.mag2,
                                        img.w, img.h)]))))

ReDetectFaults ==
  {"corrCtxNull", "corrReadThrows", "gradientThrows", "locateThrows", "subpixelThrows"}

\* Lines 797-809: the edges measured again on the rectified raster.
reDetect(raster, borderColor) ==
  With(buildGradient(raster), LAMBDA grad :
    With(locateEdges(raster, grad.sobel, borderColor), LAMBDA found :
      measureEdgesSubpixel(grad.blurred, raster.w, raster.h, found.edges)))

\* Lines 787-842: the try block and the composition, for the environment env.
finish(fp, env) ==
  With(perspectiveCorrect(fp.rawCorners, env.fault), LAMBDA made :
    LET canvas == IF made.kind = "canvas" THEN Canvas(made.w, made.h) ELSE NullCanvas
        perspectiveCorrected == made.kind = "canvas"
        finalEdges == IF perspectiveCorrected /\ env.fault \notin ReDetectFaults
                      THEN With(RectifiedRaster(made.w, made.h, env.raster),
                                LAMBDA raster : reDetect(raster, fp.borderColor))
                      ELSE fp.edges
    IN  With(analyzeBackground(fp.imageData, fp.rawEdges), LAMBDA bgInfo :
          composeResult(finalEdges, fp.rawCorners, canvas, fp.borderColor,
                        overallConfidence(fp.colorConfidence, fp.edgeConfidence),
                        perspectiveCorrected,
                        getBackgroundRecommendation(fp.borderColor, bgInfo))))

\* analyzeCard as a function of the acquired raster and the environment.
analyzeCard(img, env) == With(firstPass(img), LAMBDA fp : finish(fp, env))

----------------------------------------------------------------------------
(* 10. The calls of analyzeCard as a state machine                         *)

\* The rasters the calls are made on.
Scenes ==
  << RectImage(14, 20, P.green, P.green, 0, 0, 0, 0),
     RectImage(16, 22, P.black, P.white, 2, 9, 0, 18),
     RectImage(22, 30, P.black, P.white, 0, 18, 3, 28) >>

NumCalls == 2

Calls == 1..NumCalls

VARIABLES
  pc,       \* pc[c]: the stage call c executes next
  frames,   \* frames[f]: the local variables of an activation of analyzeCard
  input,    \* input[c]: the scene call c was made on (0 before the call)
  oracle,   \* oracle[c]: what the environment did to call c
  trace,    \* trace[c]: the stages call c has entered, in order
  result,   \* result[c]: the V2Result call c returned
  probe,    \* the argument a function is applied to on its own
  outcome   \* what the function returned for probe

vars == <<pc, frames, input, oracle, trace, result, probe, outcome>>

\* Variant of Frame: the calls keep their locals in fields of one object.
FrameShared(c) == 1

\* The activation record of call c: every call has its own.
Frame(c) == c

NoImage == [w |-> 0, h |-> 0, data |-> <<>>]

NoEdges == [left |-> RInt(0), right |-> RInt(0), top |-> RInt(0), bottom |-> RInt(0)]

NoGradient ==
  [gray |-> <<>>, blurred |-> <<>>,
   sobel |-> [mag2 |-> <<>>, dirH |-> <<>>, dirV |-> <<>>]]

NoBgInfo == [null |-> TRUE, lum |-> <<>>, color |-> "unknown"]

EmptyFrame ==
  [imageData |-> NoImage, borderColor |-> "unknown", colorConfidence |-> RInt(0),
   gradient |-> NoGradient, rawEdges |-> NoEdges, edgeConfidence |-> RInt(0),
   edges |-> NoEdges, rawCorners |-> <<>>, correctedCanvas |-> NullCanvas,
   perspectiveCorrected |-> FALSE, finalEdges |-> NoEdges, corrData |-> NoImage,
   corrGradient |-> NoGradient, corrRawEdges |-> NoEdges, bgInfo |-> NoBgInfo,
   backgroundRecommendation |-> "null"]

NoEnv == [fault |-> "none", raster |-> 1]

NoResult ==
  composeResult(NoEdges, <<>>, NullCanvas, "unknown", RInt(0), FALSE, "null")

\* No call has been made yet.
NoCalls ==
  /\ pc = [c \in Calls |-> "RASTERIZE"]
  /\ frames = [c \in Calls |-> EmptyFrame]
  /\ input = [c \in Calls |-> 0]
  /\ oracle = [c \in Calls |-> NoEnv]
  /\ trace = [c \in Calls |-> <<>>]
  /\ result = [c \in Calls |-> NoResult]

callVars == <<pc, frames, input, oracle, trace, result>>

NoProbe == [kind |-> "none"]

NoOutcome == [kind |-> "none"]

Init ==
  /\ NoCalls
  /\ probe = NoProbe
  /\ outcome = NoOutcome

\* Stage c enters stage name and goes on to next with the frame updated.
Enter(c, name, next, frame) ==
  /\ pc' = [pc EXCEPT ![c] = next]
  /\ UNCHANGED <<probe, outcome>>
  /\ trace' = [trace EXCEPT ![c] = Append(@, name)]
  /\ frames' = [frames EXCEPT ![Frame(c)] = frame]

\* Lines 754-765: the raster is acquired, or the call throws to its caller.
Rasterize(c) ==
  /\ pc[c] = "RASTERIZE"
  /\ \/ /\ pc' = [pc EXCEPT ![c] = "threw"]
        /\ UNCHANGED <<frames, input, oracle, trace, result, probe, outcome>>
     \/ \E s \in 1..Len(Scenes) :
          /\ input' = [input EXCEPT ![c] = s]
          /\ frames' = [frames EXCEPT ![Frame(c)] = [EmptyFrame EXCEPT !.imageData = Scenes[s]]]
          /\ pc' = [pc EXCEPT ![c] = "CLASSIFY_BORDER"]
          /\ UNCHANGED <<probe, outcome>>
          /\ UNCHANGED <<oracle, trace, result>>

\* Line 768
ClassifyBorder(c) ==
  /\ pc[c] = "CLASSIFY_BORDER"
  /\ LET fr == frames[Frame(c)]
         border == detectBorderColor(fr.imageData)
     IN  Enter(c, "CLASSIFY_BORDER", "BUILD_GRADIENT",
               [fr EXCEPT !.borderColor = border.color,
                          !.colorConfidence = border.confidence])
  /\ UNCHANGED <<input, oracle, result>>

\* Lines 771-773
BuildGradient(c) ==
  /\ pc[c] = "BUILD_GRADIENT"
  /\ LET fr == frames[Frame(c)]
     IN  Enter(c, "BUILD_GRADIENT", "LOCATE_EDGES",
               [fr EXCEPT !.gradient = buildGradient(fr.imageData)])
  /\ UNCHANGED <<input, oracle, result>>

\* Lines 776-778
LocateEdges(c) ==
  /\ pc[c] = "LOCATE_EDGES"
  /\ LET fr == frames[Frame(c)]
         found == locateEdges(fr.imageData, fr.gradient.sobel, fr.borderColor)
     IN  Enter(c, "LOCATE_EDGES", "REFINE_SUBPIXEL",
               [fr EXCEPT !.rawEdges = found.edges,
                          !.edgeConfidence = found.confidence])
  /\ UNCHANGED <<input, oracle, result>>

\* Line 781
RefineSubpixel(c) ==
  /\ pc[c] = "REFINE_SUBPIXEL"
  /\ LET fr == frames[Frame(c)]
     IN  Enter(c, "REFINE_SUBPIXEL", "REFINE_CORNERS",
               [fr EXCEPT !.edges = measureEdgesSubpixel(fr.gradient.blurred,
                                      fr.imageData.w, fr.imageData.h, fr.rawEdges)])
  /\ UNCHANGED <<input, oracle, result>>

\* Lines 784-785
RefineCorners(c) ==
  /\ pc[c] = "REFINE_CORNERS"
  /\ LET fr == frames[Frame(c)]
     IN  Enter(c, "REFINE_CORNERS", "ATTEMPT_RECTIFY",
               [fr EXCEPT !.rawCorners = refineCorners(cornersFromEdges(fr.edges),
                                           fr.gradient.sobel.mag2,
                                           fr.imageData.w, fr.imageData.h)])
  /\ UNCHANGED <<input, oracle, result>>

RectifyFaults == {"none", "ctxNull", "resampleThrows"}

\* Variant of AfterRectify: the re-detection is entered without a canvas.
AfterRectifyAlways(isCanvas) == "RE_READ"

\* Line 792: the re-detection is entered only with a canvas.
AfterRectify(isCanvas) == IF isCanvas THEN "RE_READ" ELSE "ANALYZE_BACKGROUND"

\* Lines 787-794: the three lets, perspectiveCorrect and, when it returned a
\* canvas, perspectiveCorrected = true.  The environment is consulted only
\* when the skew test lets the call reach the canvas operations.
AttemptRectify(c) ==
  /\ pc[c] = "ATTEMPT_RECTIFY"
  /\ LET fr == frames[Frame(c)]
     IN  \E fault \in RectifyFaults :
           LET made == perspectiveCorrect(fr.rawCorners, fault)
               isCanvas == made.kind = "canvas"
           IN  /\ skewBelowLimit(fr.rawCorners) => fault = "none"
               /\ oracle' = [oracle EXCEPT ![c].fault = fault]
               /\ Enter(c, "ATTEMPT_RECTIFY", AfterRectify(isCanvas),
                        [fr EXCEPT !.correctedCanvas =
                                      IF isCanvas THEN Canvas(made.w, made.h)
                                      ELSE NullCanvas,
                                   !.perspectiveCorrected = isCanvas,
                                   !.finalEdges = fr.edges])
  /\ UNCHANGED <<input, result>>

\* Variants of Abandon: the exception reaches the caller; the failure also
\* clears perspectiveCorrected.
AbandonRethrows(c, fault) ==
  /\ oracle' = [oracle EXCEPT ![c].fault = fault]
  /\ pc' = [pc EXCEPT ![c] = "threw"]
  /\ UNCHANGED <<probe, outcome>>
  /\ UNCHANGED frames

AbandonClearsFlag(c, fault) ==
  /\ oracle' = [oracle EXCEPT ![c].fault = fault]
  /\ pc' = [pc EXCEPT ![c] = "ANALYZE_BACKGROUND"]
  /\ UNCHANGED <<probe, outcome>>
  /\ frames' = [frames EXCEPT ![Frame(c)].perspectiveCorrected = FALSE]

\* A step of the re-detection that fails: control leaves the try block
\* through the empty catch, or through the if when no context was obtained.
Abandon(c, fault) ==
  /\ oracle' = [oracle EXCEPT ![c].fault = fault]
  /\ pc' = [pc EXCEPT ![c] = "ANALYZE_BACKGROUND"]
  /\ UNCHANGED <<probe, outcome>>
  /\ UNCHANGED frames

\* Lines 796-798: the context and the pixels of the rectified canvas.
ReadRectified(c) ==
  /\ pc[c] = "RE_READ"
  /\ LET fr == frames[Frame(c)]
     IN  \/ \E k \in RasterChoices :
              /\ frames' = [frames EXCEPT ![Frame(c)] =
                             [fr EXCEPT !.corrData =
                                RectifiedRaster(fr.correctedCanvas.w,
                                                fr.correctedCanvas.h, k)]]
              /\ oracle' = [oracle EXCEPT ![c].raster = k]
              /\ pc' = [pc EXCEPT ![c] = "RE_BUILD_GRADIENT"]
              /\ UNCHANGED <<probe, outcome>>
         \/ \E fault \in {"corrCtxNull", "corrReadThrows"} :
              Abandon(c, fault)
  /\ UNCHANGED <<input, trace, result>>

\* Lines 799-801
ReBuildGradient(c) ==
  /\ pc[c] = "RE_BUILD_GRADIENT"
  /\ LET fr == frames[Frame(c)]
     IN  \/ /\ Enter(c, "BUILD_GRADIENT", "RE_LOCATE_EDGES",
                     [fr EXCEPT !.corrGradient = buildGradient(fr.corrData)])
            /\ UNCHANGED oracle
         \/ /\ Abandon(c, "gradientThrows")
            /\ trace' = [trace EXCEPT ![c] = Append(@, "BUILD_GRADIENT")]
  /\ UNCHANGED <<input, result>>

\* Variant of ReLocateEdges: the confidence of the second findCardEdges call
\* replaces the one of the first.
ReLocateEdgesKeepsConfidence(c) ==
  /\ pc[c] = "RE_LOCATE_EDGES"
  /\ LET fr == frames[Frame(c)]
         found == locateEdges(fr.corrData, fr.corrGradient.sobel, fr.borderColor)
     IN  \/ /\ Enter(c, "LOCATE_EDGES", "RE_REFINE_SUBPIXEL",
                     [fr EXCEPT !.corrRawEdges = found.edges,
                                !.edgeConfidence = found.confidence])
            /\ UNCHANGED oracle
         \/ /\ Abandon(c, "locateThrows")
            /\ trace' = [trace EXCEPT ![c] = Append(@, "LOCATE_EDGES")]
  /\ UNCHANGED <<input, result>>

\* Lines 802-806
ReLocateEdges(c) ==
  /\ pc[c] = "RE_LOCATE_EDGES"
  /\ LET fr == frames[Frame(c)]
     IN  \/ /\ Enter(c, "LOCATE_EDGES", "RE_REFINE_SUBPIXEL",
                     [fr EXCEPT !.corrRawEdges =
                        locateEdges(fr.corrData, fr.corrGradient.sobel,
                                    fr.borderColor).edges])
            /\ UNCHANGED oracle
         \/ /\ Abandon(c, "locateThrows")
            /\ trace' = [trace EXCEPT ![c] = Append(@, "LOCATE_EDGES")]
  /\ UNCHANGED <<input, result>>

\* Lines 807-809
ReRefineSubpixel(c) ==
  /\ pc[c] = "RE_REFINE_SUBPIXEL"
  /\ LET fr == frames[Frame(c)]
     IN  \/ /\ Enter(c, "REFINE_SUBPIXEL", "ANALYZE_BACKGROUND",
                     [fr EXCEPT !.finalEdges =
                        measureEdgesSubpixel(fr.corrGradient.blurred,
                          fr.correctedCanvas.w, fr.correctedCanvas.h, fr.corrRawEdges)])
            /\ UNCHANGED oracle
         \/ /\ Abandon(c, "subpixelThrows")
            /\ trace' = [trace EXCEPT ![c] = Append(@, "REFINE_SUBPIXEL")]
  /\ UNCHANGED <<input, result>>

\* Lines 817-818
AnalyzeBackground(c) ==
  /\ pc[c] = "ANALYZE_BACKGROUND"
  /\ LET fr == frames[Frame(c)]
         bgInfo == analyzeBackground(fr.imageData, fr.rawEdges)
     IN  Enter(c, "ANALYZE_BACKGROUND", "COMPOSE_RESULT",
               [fr EXCEPT !.bgInfo = bgInfo,
                          !.backgroundRecommendation =
                             getBackgroundRecommendation(fr.borderColor, bgInfo)])
  /\ UNCHANGED <<input, oracle, result>>

\* Lines 821-842
ComposeResult(c) ==
  /\ pc[c] = "COMPOSE_RESULT"
  /\ LET fr == frames[Frame(c)]
     IN  /\ result' = [result EXCEPT ![c] =
              composeResult(fr.finalEdges, fr.rawCorners, fr.correctedCanvas,
                            fr.borderColor,
                            overallConfidence(fr.colorConfidence, fr.edgeConfidence),
                            fr.perspectiveCorrected, fr.backgroundRecommendation)]
         /\ Enter(c, "COMPOSE_RESULT", "done", fr)
  /\ UNCHANGED <<input, oracle>>

Step(c) ==
  \/ Rasterize(c)
  \/ ClassifyBorder(c)
  \/ BuildGradient(c)
  \/ LocateEdges(c)
  \/ RefineSubpixel(c)
  \/ RefineCorners(c)
  \/ AttemptRectify(c)
  \/ ReadRectified(c)
  \/ ReBuildGradient(c)
  \/ ReLocateEdges(c)
  \/ ReRefineSubpixel(c)
  \/ AnalyzeBackground(c)
  \/ ComposeResult(c)

Next == \E c \in Calls : Step(c)

Spec == Init /\ [][Next]_vars

----------------------------------------------------------------------------
(* 11. Properties of the calls                                             *)

Acquired(c) == pc[c] \notin {"RASTERIZE", "threw"}

Done(c) == pc[c] = "done"

\* What analyzeCard computes before the try block, for every scene.
FirstPassOf == Arr([s \in 1..Len(Scenes) |-> firstPass(Scenes[s])], Len(Scenes))

\* The position of a stage in a call.
StageRank(p) ==
  CASE p = "RASTERIZE" -> 0
    [] p = "threw" -> 1
    [] p = "CLASSIFY_BORDER" -> 1
    [] p = "BUILD_GRADIENT" -> 2
    [] p = "LOCATE_EDGES" -> 3
    [] p = "REFINE_SUBPIXEL" -> 4
    [] p = "REFINE_CORNERS" -> 5
    [] p = "ATTEMPT_RECTIFY" -> 6
    [] p = "RE_READ" -> 7
    [] p = "RE_BUILD_GRADIENT" -> 8
    [] p = "RE_LOCATE_EDGES" -> 9
    [] p = "RE_REFINE_SUBPIXEL" -> 10
    [] p = "ANALYZE_BACKGROUND" -> 11
    [] p = "COMPOSE_RESULT" -> 12
    [] p = "done" -> 13

\* The stages at which a call has a step to take: the guard of every action
\* of Step but Rasterize is the stage alone.
RunningStages ==
  {"CLASSIFY_BORDER", "BUILD_GRADIENT", "LOCATE_EDGES", "REFINE_SUBPIXEL",
   "REFINE_CORNERS", "ATTEMPT_RECTIFY", "RE_READ", "RE_BUILD_GRADIENT",
   "RE_LOCATE_EDGES", "RE_REFINE_SUBPIXEL", "ANALYZE_BACKGROUND", "COMPOSE_RESULT"}

\* C1: once the raster has been acquired, the call reaches result
\* composition and returns, whatever the rectification attempt does: an
\* acquired call has returned or is at a stage that has a step to take,
\* every step moves it to a later stage, and it never leaves by an exception.
C1_AlwaysComposes ==
  /\ [](\A c \in Calls : Acquired(c) => (Done(c) \/ pc[c] \in RunningStages))
  /\ [][\A c \in Calls :
          /\ Acquired(c) => Acquired(c)'
          /\ pc[c]' # pc[c] => StageRank(pc[c]') > StageRank(pc[c])]_vars

\* C1 witness: a call that returned although the re-detection threw.
C1_Witness ==
  \E c \in Calls : Done(c) /\ oracle[c].fault = "locateThrows"

\* Whether the rectification attempt of call c failed somewhere: in
\* perspectiveCorrect (no context, an exception) or in the re-detection.
RectifyFailed(c) ==
  \/ oracle[c].fault # "none"
  \/ /\ ~skewBelowLimit(result[c].corners)
     /\ result[c].correctedCanvas.null

\* C2 as claimed: a failure anywhere in the rectification attempt leaves
\* perspectiveCorrected = false, the method tag 'V2-Edge-Detection' and the
\* first-pass sub-pixel edges in the result.
C2_FailureMeansSkipped ==
  \A c \in Calls :
    (Done(c) /\ RectifyFailed(c)) =>
      /\ ~result[c].info.perspectiveCorrected
      /\ result[c].info.detectionMethod = "V2-Edge-Detection"
      /\ result[c].edges = FirstPassOf[input[c]].edges

\* C3: in every returned result the method tag, perspectiveCorrected and the
\* presence of correctedCanvas agree.
C3_IndicatorsAgree ==
  \A c \in Calls :
    Done(c) =>
      LET r == result[c]
      IN  /\ (r.info.detectionMethod = "V2-Perspective-Corrected")
               <=> r.info.perspectiveCorrected
          /\ r.info.perspectiveCorrected <=> ~r.correctedCanvas.null
          /\ ~r.info.perspectiveCorrected =>
               /\ r.info.detectionMethod = "V2-Edge-Detection"
               /\ r.correctedCanvas.null

\* C3 witness: a result with a rectified canvas whose pixels could not be read.
C3_Witness ==
  \E c \in Calls :
    /\ Done(c)
    /\ oracle[c].fault = "corrReadThrows"
    /\ ~result[c].correctedCanvas.null

FirstStages ==
  <<"CLASSIFY_BORDER", "BUILD_GRADIENT", "LOCATE_EDGES", "REFINE_SUBPIXEL",
    "REFINE_CORNERS", "ATTEMPT_RECTIFY">>

ReEntryStages == <<"BUILD_GRADIENT", "LOCATE_EDGES", "REFINE_SUBPIXEL">>

LastStages == <<"ANALYZE_BACKGROUND", "COMPOSE_RESULT">>

\* The stages of a whole call whose re-entry went through k stages.
StagesOfCall(k) == FirstStages \o SubSeq(ReEntryStages, 1, k) \o LastStages

IsPrefix(s, t) == Len(s) <= Len(t) /\ s = SubSeq(t, 1, Len(s))

\* C4: the stages run in the fixed order, each once, but for one re-entry
\* of BUILD_GRADIENT, LOCATE_EDGES, REFINE_SUBPIXEL (cut short when one of
\* them throws) that takes place only after ATTEMPT_RECTIFY produced a
\* canvas and before ANALYZE_BACKGROUND.
C4_StageOrder ==
  \A c \in Calls :
    \E k \in 0..3 :
      /\ IsPrefix(trace[c], StagesOfCall(k))
      /\ Done(c) => trace[c] = StagesOfCall(k)
      /\ Len(trace[c]) > Len(FirstStages) /\ k > 0 =>
           ~frames[Frame(c)].correctedCanvas.null

\* C4 witness: a finished call that went through the whole re-entry.
C4_Witness ==
  \E c \in Calls : Done(c) /\ trace[c] = StagesOfCall(3)

\* C5: the overall confidence is 0.3 colorConfidence + 0.7 edgeConfidence
\* of the original image, clamped to [0, 1], and lies in [0, 1].
C5_Confidence ==
  \A c \in Calls :
    Done(c) =>
      LET fp  == FirstPassOf[input[c]]
          sum == RAdd(Rat(3 * fp.colorConfidence[1], 10 * fp.colorConfidence[2]),
                      Rat(7 * fp.edgeConfidence[1], 10 * fp.edgeConfidence[2]))
          v   == result[c].info.confidence
      IN  /\ v = IF RLess(sum, RInt(0)) THEN RInt(0)
                 ELSE IF RLess(RInt(1), sum) THEN RInt(1) ELSE sum
          /\ RLeq(RInt(0), v) /\ RLeq(v, RInt(1))

\* C5 witness: one call has returned for an image with edge points and a
\* border colour, the other for an image with no edge point and every sample
\* unknown, whose confidence is 0.
C5_Witness ==
  \E c, d \in Calls :
    /\ Done(c) /\ Done(d)
    /\ RLess(RInt(0), FirstPassOf[input[c]].edgeConfidence)
    /\ RLess(RInt(0), FirstPassOf[input[c]].colorConfidence)
    /\ FirstPassOf[input[c]].edgeConfidence # FirstPassOf[input[c]].colorConfidence
    /\ result[d].info.confidence = RInt(0)

\* C6: a call works on its own raster only, and returns what analyzeCard
\* returns for its raster and its environment alone, whatever the other
\* call does meanwhile; so calls on the same raster in the same environment
\* return equal results.
C6_Reentrant ==
  /\ \A c \in Calls :
       /\ (Acquired(c) /\ ~Done(c)) => frames[Frame(c)].imageData = Scenes[input[c]]
       /\ Done(c) => result[c] = finish(FirstPassOf[input[c]], oracle[c])
  /\ \A c, d \in Calls :
       (Done(c) /\ Done(d) /\ input[c] = input[d] /\ oracle[c] = oracle[d])
         => result[c] = result[d]

\* C6 witness: two calls on different rasters have both returned, with
\* different results.
C6_Witness ==
  \E c, d \in Calls :
    /\ c # d /\ Done(c) /\ Done(d)
    /\ input[c] # input[d]
    /\ result[c] # result[d]

----------------------------------------------------------------------------
(* 12. detectBorderColor's vote on its own                                 *)

\* The largest count of one class in a tally.
MaxCount == 3

\* The tallies the sampling loops can leave: any number of samples of each
\* class.
Tallies == [BorderColors -> 0..MaxCount]

InitVote ==
  /\ NoCalls
  /\ probe \in [kind : {"tally"}, counts : Tallies]
  /\ outcome = NoOutcome

\* Lines 134-147 applied to the tally.
Vote ==
  /\ probe.kind = "tally"
  /\ outcome = NoOutcome
  /\ outcome' = [kind |-> "vote", vote |-> borderVote(probe.counts)]
  /\ UNCHANGED <<callVars, probe>>

NextVote == Vote

SpecVote == InitVote /\ [][NextVote]_vars

Voted == probe.kind = "tally" /\ outcome.kind = "vote"

\* C9: the confidence is the highest count among black, white, yellow and
\* silver over the number of samples, unknown ones included; the colour is
\* one with that count when the confidence exceeds 0.2 and unknown, with the
\* same confidence, when it does not; with no sample it is unknown with
\* confidence 0.
C9_Vote ==
  Voted =>
    LET n     == probe.counts
        total == n["black"] + n["white"] + n["yellow"] + n["silver"] + n["unknown"]
        top   == SetMax({n["black"], n["white"], n["yellow"], n["silver"]})
        v     == outcome.vote
    IN  IF total = 0
        THEN v.color = "unknown" /\ v.confidence = <<0, 1>>
        ELSE /\ v.confidence[1] * total = top * v.confidence[2]
             /\ v.confidence[2] > 0
             /\ 5 * top > total =>
                  /\ v.color \in {"black", "white", "yellow", "silver"}
                  /\ n[v.color] = top
             /\ 5 * top <= total => v.color = "unknown"

\* C9 witness: a vote whose confidence is exactly 0.2, reported as unknown,
\* although one colour has the highest count.
C9_Witness ==
  /\ Voted
  /\ outcome.vote.confidence = <<1, 5>>
  /\ outcome.vote.color = "unknown"
  /\ probe.counts["yellow"] = 1 /\ probe.counts["unknown"] = 3

----------------------------------------------------------------------------
(* 13. findCardEdges' aggregation on its own                               *)

\* Image sizes: card-shaped ones, a 4:3 one, a square one.
EdgeSizes == {<<10, 14>>, <<20, 28>>, <<50, 70>>, <<64, 48>>, <<30, 30>>}

\* How many points a side collected.
PointCounts == {0, 5, 6}

\* The positions the scans of lines 251-293 can record on each side.
LeftRange(w) == {x \in ((3 * w) \div 100)..(w - 1) : 5 * x < 2 * w}

RightRange(w) == {x \in 0..(w - ((3 * w) \div 100) - 1) : 5 * x > 3 * w}

\* A side's points: n points, all at position v, the nearest or the farthest
\* position of the side's range; a scan records one point per scan line at
\* most.
SidePoints(range, lines) ==
  {<<0, 0>>} \cup
  {<<n, v>> \in (PointCounts \ {0}) \X {SetMin(range), SetMax(range)} : n <= lines}

EdgeProbes ==
  UNION {
    LET w == sz[1]
        h == sz[2]
        rows == Len(scanLines((3 * h) \div 100, h))
        cols == Len(scanLines((3 * w) \div 100, w))
    IN  [kind : {"points"}, w : {w}, h : {h},
         left : SidePoints(LeftRange(w), rows),
         right : SidePoints(RightRange(w), rows),
         top : SidePoints(LeftRange(h), cols),
         bottom : SidePoints(RightRange(h), cols)]
    : sz \in EdgeSizes }

PointSeq(side) == [i \in 1..side[1] |-> side[2]]

InitEdges ==
  /\ NoCalls
  /\ probe \in EdgeProbes
  /\ outcome = NoOutcome

\* Lines 295-333 applied to the collected points.
Aggregate ==
  /\ probe.kind = "points"
  /\ outcome = NoOutcome
  /\ LET r == edgesFromPoints(probe.w, probe.h,
                              [left |-> PointSeq(probe.left),
                               right |-> PointSeq(probe.right),
                               top |-> PointSeq(probe.top),
                               bottom |-> PointSeq(probe.bottom)])
     IN  outcome' = [kind |-> "edges", edges |-> r.edges, confidence |-> r.confidence]
  /\ UNCHANGED <<callVars, probe>>

NextEdges == Aggregate

SpecEdges == InitEdges /\ [][NextEdges]_vars

Aggregated == probe.kind = "points" /\ outcome.kind = "edges"

\* Twenty times a side's value before the aspect constraint: the position of
\* its points when it has six, its default when it has fewer.
Pre20(side, default20) == IF side[1] >= 6 THEN 20 * side[2] ELSE default20

\* |width / height - 5/7| > 0.15 for the box before the aspect constraint.
ConstraintFires ==
  LET dw == Pre20(probe.right, 19 * probe.w) - Pre20(probe.left, probe.w)
      dh == Pre20(probe.bottom, 19 * probe.h) - Pre20(probe.top, probe.h)
  IN  20 * Abs(7 * dw - 5 * dh) > 21 * dh

HorizontalTrusted ==
  probe.left[1] + probe.right[1] > probe.top[1] + probe.bottom[1]

\* Math.round of n/d, d > 0.
RoundDiv(n, d) == (2 * n + d) \div (2 * d)

Within(v, dim) == IF v < 0 THEN 0 ELSE IF v > dim - 1 THEN dim - 1 ELSE v

NoPoints ==
  probe.left[1] = 0 /\ probe.right[1] = 0 /\ probe.top[1] = 0 /\ probe.bottom[1] = 0

\* C10 as stated: a side with fewer than six points gets its rounded default
\* (5% or 95% of the dimension), at every image size; with no point at all
\* the box is the 5%/95% box and the confidence is 0.
C10_DefaultsReturned ==
  Aggregated =>
    LET e == outcome.edges
    IN  /\ probe.left[1] < 6 => e.left = <<RoundDiv(probe.w, 20), 1>>
        /\ probe.right[1] < 6 => e.right = <<RoundDiv(19 * probe.w, 20), 1>>
        /\ probe.top[1] < 6 => e.top = <<RoundDiv(probe.h, 20), 1>>
        /\ probe.bottom[1] < 6 => e.bottom = <<RoundDiv(19 * probe.h, 20), 1>>
        /\ NoPoints => outcome.confidence = <<0, 1>>

\* C10 amended: a side with fewer than six points gets its default, rounded
\* and clamped to the image, unless the aspect constraint moves its axis
\* (the vertical axis when the left and right sides hold more points than
\* the top and bottom ones, the horizontal axis otherwise); with no point at
\* all the confidence is 0, top and bottom are the clamped defaults, and
\* left and right are the clamped defaults when the image is within 0.15 of
\* 5:7 and otherwise the clamped roundings of w/2 -+ 9h/28.
C10_DefaultsUnlessConstrained ==
  Aggregated =>
    LET e  == outcome.edges
        w  == probe.w
        h  == probe.h
        moveX == ConstraintFires /\ ~HorizontalTrusted
        moveY == ConstraintFires /\ HorizontalTrusted
    IN  /\ (probe.left[1] < 6 /\ ~moveX) => e.left = <<Within(RoundDiv(w, 20), w), 1>>
        /\ (probe.right[1] < 6 /\ ~moveX) => e.right = <<Within(RoundDiv(19 * w, 20), w), 1>>
        /\ (probe.top[1] < 6 /\ ~moveY) => e.top = <<Within(RoundDiv(h, 20), h), 1>>
        /\ (probe.bottom[1] < 6 /\ ~moveY) => e.bottom = <<Within(RoundDiv(19 * h, 20), h), 1>>
        /\ NoPoints =>
             /\ outcome.confidence = <<0, 1>>
             /\ ~moveY
             /\ moveX =>
                  /\ e.left = <<Within(RoundDiv(14 * w - 9 * h, 28), w), 1>>
                  /\ e.right = <<Within(RoundDiv(14 * w + 9 * h, 28), w), 1>>

\* C10 witness: the left side collected five points away from its default
\* and the other sides six each; the aspect constraint does not fire and
\* the left edge is the default.
C10_Witness ==
  /\ Aggregated
  /\ probe.left[1] = 5 /\ probe.left[2] # RoundDiv(probe.w, 20)
  /\ probe.right[1] = 6 /\ probe.top[1] = 6 /\ probe.bottom[1] = 6
  /\ ~ConstraintFires
  /\ outcome.edges.left = <<RoundDiv(probe.w, 20), 1>>

----------------------------------------------------------------------------
(* 14. analyzeCard on synthetic cards                                      *)

\* Synthetic cards: a black rectangle [l, r) x [t, b) on a uniform
\* background.  The 500 x 700 card with edges 50, 450, 70, 630 on white,
\* and 50 x 70 cards with edges about a tenth of those on every background
\* of the palette.
SyntheticScenes ==
  [kind : {"scene"}, w : {500}, h : {700}, bg : {P.white},
   l : {50}, r : {450}, t : {70}, b : {630}]
  \cup
  [kind : {"scene"}, w : {50}, h : {70},
   bg : {P.white, P.yellow, P.silver, P.green, P.gray},
   l : {5, 8}, r : {42, 45}, t : {7, 10}, b : {60, 63}]

InitSynthetic ==
  /\ NoCalls
  /\ probe \in SyntheticScenes
  /\ outcome = NoOutcome

\* analyzeCard on the synthetic card, in an environment without faults.
AnalyzeSynthetic ==
  /\ probe.kind = "scene"
  /\ outcome = NoOutcome
  /\ \E img \in {RectImage(probe.w, probe.h, probe.bg, P.black,
                            probe.l, probe.r, probe.t, probe.b)} :
       \E fp \in {firstPass(img)} :
         \* the pixels of the rectified canvas are drawn only when it exists
         \E k \in IF perspectiveCorrect(fp.rawCorners, "none").kind = "canvas"
                  THEN RasterChoices ELSE {1} :
           \E res \in {finish(fp, [fault |-> "none", raster |-> k])} :
             outcome' = [kind |-> "card", edges |-> res.edges,
                         borderColor |-> res.info.borderColor,
                         perspectiveCorrected |-> res.info.perspectiveCorrected]
  /\ UNCHANGED <<callVars, probe>>

NextSynthetic == AnalyzeSynthetic

SpecSynthetic == InitSynthetic /\ [][NextSynthetic]_vars

\* v is within tol of the integer n.
Near(v, n, tol) == RLeq(RInt(n - tol), v) /\ RLeq(v, RInt(n + tol))

\* C8: for the 500 x 700 image of a black rectangle with edges 50, 450, 70,
\* 630 on a contrasting background, the returned edges are within 3 px of
\* those coordinates and the border colour is black.
C8_SyntheticCard ==
  (/\ probe.kind = "scene" /\ outcome.kind = "card"
   /\ probe.w = 500 /\ probe.h = 700
   /\ probe.l = 50 /\ probe.r = 450 /\ probe.t = 70 /\ probe.b = 630)
  => /\ Near(outcome.edges.left, 50, 3)
     /\ Near(outcome.edges.right, 450, 3)
     /\ Near(outcome.edges.top, 70, 3)
     /\ Near(outcome.edges.bottom, 630, 3)
     /\ outcome.borderColor = "black"

----------------------------------------------------------------------------
(* 15. The boxes a call produces                                           *)

\* C7: the coarse edges of a call that returned form a box inside its
\* image, 0 <= left < right <= width - 1 and 0 <= top < bottom <= height - 1,
\* and the edges of its result satisfy left < right and top < bottom.
C7_EdgesWellFormed ==
  \A c \in Calls :
    Done(c) =>
      LET raw == FirstPassOf[input[c]].rawEdges
          img == Scenes[input[c]]
          e   == result[c].edges
      IN  /\ RLeq(RInt(0), raw.left) /\ RLess(raw.left, raw.right)
          /\ RLeq(raw.right, RInt(img.w - 1))
          /\ RLeq(RInt(0), raw.top) /\ RLess(raw.top, raw.bottom)
          /\ RLeq(raw.bottom, RInt(img.h - 1))
          /\ RLess(e.left, e.right)
          /\ RLess(e.top, e.bottom)

----------------------------------------------------------------------------
(* 16. The corners a call produces                                         *)

\* C11: the corners of a result are listed clockwise from top-left: corner 0
\* is left of corner 1 and above corner 3, corner 2 is right of corner 3 and
\* below corner 1, and the four points are pairwise distinct.
C11_CornersClockwise ==
  \A c \in Calls :
    Done(c) =>
      LET k == result[c].corners
      IN  /\ RLess(k[1].x, k[2].x)
          /\ RLess(k[1].y, k[4].y)
          /\ RLess(k[4].x, k[3].x)
          /\ RLess(k[2].y, k[3].y)
          /\ \A i, j \in 1..4 : i # j => k[i] # k[j]

----------------------------------------------------------------------------
(* 17. perspectiveCorrect applied to quadrilaterals                        *)

\* Rectangles left/right/top/bottom, and how far the top-right corner is
\* moved down and the bottom-left corner is moved right.
SkewBoxes == {0, 2} \X {30, 31} \X {0, 1} \X {29, 40}

SkewShifts == {0, 1, 2} \X {0, 1, 2}

RectifyFaultsProbed == {"none", "ctxNull", "resampleThrows"}

Quad(box, shift) ==
  << [x |-> RInt(box[1]),            y |-> RInt(box[3])],
     [x |-> RInt(box[2]),            y |-> RInt(box[3] + shift[1])],
     [x |-> RInt(box[2]),            y |-> RInt(box[4])],
     [x |-> RInt(box[1] + shift[2]), y |-> RInt(box[4])] >>

InitSkew ==
  /\ NoCalls
  /\ probe \in {[kind |-> "quad", corners |-> Quad(b, s), fault |-> f] :
                  b \in SkewBoxes, s \in SkewShifts, f \in RectifyFaultsProbed}
  /\ outcome = NoOutcome

\* Lines 790-794 and 812-814: perspectiveCorrect on the corners, and the flag
\* the orchestrator derives from what it returned.
Rectify ==
  /\ probe.kind = "quad"
  /\ outcome = NoOutcome
  /\ \E made \in {perspectiveCorrect(probe.corners, probe.fault)} :
       outcome' = [kind |-> "rectify", made |-> made.kind,
                   perspectiveCorrected |-> (made.kind = "canvas")]
  /\ UNCHANGED <<callVars, probe>>

NextSkew == Rectify

SpecSkew == InitSkew /\ [][NextSkew]_vars

\* The corners are those of an axis-aligned rectangle, clockwise from
\* top-left, with left < right and top < bottom.
AxisAligned(k) ==
  /\ k[1].y = k[2].y /\ k[4].y = k[3].y
  /\ k[1].x = k[4].x /\ k[2].x = k[3].x
  /\ RLess(k[1].x, k[2].x) /\ RLess(k[1].y, k[4].y)

\* The side from p to q deviates from its axis by less than 0.035 rad; the
\* axis is x for the top and bottom sides and y for the left and right ones.
DeviationBelow(p, q, axis) ==
  LET along  == IF axis = "x" THEN RSub(q.x, p.x) ELSE RSub(q.y, p.y)
      across == IF axis = "x" THEN RSub(q.y, p.y) ELSE RSub(q.x, p.x)
  IN  \/ along = RInt(0) /\ across = RInt(0)
      \/ RLess(RInt(0), along) /\ RLess(RMul(RInt(100000), RAbs(across)), RMul(RInt(3502), along))

MaxDeviationBelow(k) ==
  /\ DeviationBelow(k[1], k[2], "x") /\ DeviationBelow(k[4], k[3], "x")
  /\ DeviationBelow(k[1], k[4], "y") /\ DeviationBelow(k[2], k[3], "y")

Rectified == outcome.kind = "rectify"

\* C12 as stated: an axis-aligned rectangle is not rectified (null, no
\* exception, perspectiveCorrected false), and rectification is skipped
\* exactly when the maximum deviation of the sides is below 0.035 rad.
C12_SkippedExactlyBelow ==
  Rectified =>
    /\ AxisAligned(probe.corners) =>
          outcome.made = "null" /\ ~outcome.perspectiveCorrected
    /\ ~outcome.perspectiveCorrected <=> MaxDeviationBelow(probe.corners)

\* C12, amended: an axis-aligned rectangle is not rectified (null, no
\* exception, perspectiveCorrected false); whenever the maximum deviation is
\* below 0.035 rad perspectiveCorrect returns null; at 0.035 rad or more it
\* returns a canvas unless a 2-D context is unavailable (null) or the
\* resampling throws, and perspectiveCorrected is true exactly when a canvas
\* was returned.
C12_SkipRule ==
  Rectified =>
    /\ AxisAligned(probe.corners) =>
          outcome.made = "null" /\ ~outcome.perspectiveCorrected
    /\ MaxDeviationBelow(probe.corners) =>
          outcome.made = "null" /\ ~outcome.perspectiveCorrected
    /\ ~MaxDeviationBelow(probe.corners) =>
          /\ outcome.made = "null" <=> probe.fault = "ctxNull"
          /\ outcome.made = "throw" <=> probe.fault = "resampleThrows"
          /\ outcome.made = "canvas" <=> probe.fault = "none"
    /\ outcome.perspectiveCorrected <=> outcome.made = "canvas"

C12_Witness ==
  /\ Rectified
  /\ AxisAligned(probe.corners)
  /\ probe.fault = "resampleThrows"
  /\ outcome.made = "null"
  /\ ~outcome.perspectiveCorrected

----------------------------------------------------------------------------
(* 18. The homography solver                                               *)

\* Math.abs(v) < 1e-12.  A rational whose denominator fits the integers of
\* the model is that small only when it is 0.
Tiny(v) == v[1] = 0

\* The two rows of the augmented system [M | b] for one correspondence
\* (lines 395-409): M is A without its last column and b is minus that
\* column.
augRows(s, d) ==
  LET z == RInt(0)
      m == RInt(-1)
      n(v) == RSub(z, v)
  IN  << << n(s.x), n(s.y), m, z, z, z, RMul(d.x, s.x), RMul(d.x, s.y), n(d.x) >>,
         << z, z, z, n(s.x), n(s.y), m, RMul(d.y, s.x), RMul(d.y, s.y), n(d.y) >> >>

augmented(src, dst) ==
  augRows(src[1], dst[1]) \o augRows(src[2], dst[2]) \o
  augRows(src[3], dst[3]) \o augRows(src[4], dst[4])

\* Lines 417-424: the first row at or below col whose entry in column col is
\* greatest in absolute value.
RECURSIVE pivotRow(_, _, _, _)
pivotRow(aug, col, row, best) ==
  IF row > 8 THEN best
  ELSE pivotRow(aug, col, row + 1,
                IF RLess(RAbs(aug[best][col]), RAbs(aug[row][col])) THEN row ELSE best)

\* Lines 416-435 for one column: the swap, then the elimination below the
\* pivot unless the pivot is negligible.
eliminateColumn(aug, col) ==
  With(pivotRow(aug, col, col + 1, col), LAMBDA maxRow :
    With([r \in 1..8 |-> IF r = col THEN aug[maxRow]
                         ELSE IF r = maxRow THEN aug[col] ELSE aug[r]],
         LAMBDA sw :
      IF Tiny(sw[col][col]) THEN sw
      ELSE [r \in 1..8 |->
              IF r <= col THEN sw[r]
              ELSE With(RDiv(sw[r][col], sw[col][col]), LAMBDA factor :
                     [j \in 1..9 |->
                        IF j < col THEN sw[r][j]
                        ELSE RSub(sw[r][j], RMul(factor, sw[col][j]))])]))

RECURSIVE eliminate(_, _)
eliminate(aug, col) ==
  IF col > 8 THEN aug
  ELSE With(eliminateColumn(aug, col), LAMBDA next : eliminate(next, col + 1))

\* sum -= aug[row][col] * h[col] for col = from .. 8 (lines 442-445).
RECURSIVE backSum(_, _, _, _)
backSum(augRow, h, from, sum) ==
  IF from > 8 THEN sum
  ELSE backSum(augRow, h, from + 1, RSub(sum, RMul(augRow[from], h[from])))

\* backSubstitute without the default: a coefficient whose pivot is negligible
\* keeps the undivided sum.
RECURSIVE backSubstituteKeepsSum(_, _, _)
backSubstituteKeepsSum(aug, h, row) ==
  IF row < 1 THEN h
  ELSE With(backSum(aug[row], h, row + 1, aug[row][9]), LAMBDA sum :
         With([h EXCEPT ![row] = IF Tiny(aug[row][row]) THEN sum
                                 ELSE RDiv(sum, aug[row][row])],
              LAMBDA next : backSubstituteKeepsSum(aug, next, row - 1)))

\* Lines 438-447: h[8] = 1 and the back substitution from the last row up.
RECURSIVE backSubstitute(_, _, _)
backSubstitute(aug, h, row) ==
  IF row < 1 THEN h
  ELSE With(backSum(aug[row], h, row + 1, aug[row][9]), LAMBDA sum :
         With([h EXCEPT ![row] = IF Tiny(aug[row][row]) THEN RInt(0)
                                 ELSE RDiv(sum, aug[row][row])],
              LAMBDA next : backSubstitute(aug, next, row - 1)))

\* computeHomography (lines 389-451); H[i] of the source is h[i + 1].
computeHomography(src, dst) ==
  With(eliminate(augmented(src, dst), 1), LAMBDA aug :
    backSubstitute(aug, [i \in 1..9 |-> IF i = 9 THEN RInt(1) ELSE RInt(0)], 8))

\* applyHomography (lines 453-460)
applyHomography(H, x, y) ==
  With(RAdd(RAdd(RMul(H[7], x), RMul(H[8], y)), H[9]), LAMBDA w :
    IF Tiny(w) THEN [x |-> RInt(0), y |-> RInt(0)]
    ELSE [x |-> RDiv(RAdd(RAdd(RMul(H[1], x), RMul(H[2], y)), H[3]), w),
          y |-> RDiv(RAdd(RAdd(RMul(H[4], x), RMul(H[5], y)), H[6]), w)])

Pt(x, y) == [x |-> RInt(x), y |-> RInt(y)]

\* Source quadrilaterals, no three points of one on a line: the rectangles
\* perspectiveCorrect passes (the output canvas) and other quadrilaterals.
SrcQuads ==
  { << Pt(0, 0), Pt(2, 0), Pt(2, 3), Pt(0, 3) >>,
    << Pt(0, 0), Pt(5, 0), Pt(5, 7), Pt(0, 7) >>,
    << Pt(0, 0), Pt(3, 0), Pt(3, 4), Pt(0, 4) >>,
    << Pt(1, 0), Pt(1, 1), Pt(2, 1), Pt(2, 3) >>,
    << Pt(1, 1), Pt(4, 0), Pt(5, 3), Pt(0, 4) >> }

DstQuads ==
  { << Pt(0, 0), Pt(2, 0), Pt(2, 3), Pt(0, 3) >>,
    << Pt(1, 1), Pt(4, 0), Pt(5, 3), Pt(0, 4) >>,
    << Pt(4, 0), Pt(4, 2), Pt(3, 1), Pt(3, 3) >>,
    << Pt(0, 0), Pt(5, 0), Pt(5, 7), Pt(0, 7) >>,
    << Pt(1, 0), Pt(4, 1), Pt(4, 5), Pt(0, 6) >>,
    << Pt(2, 1), Pt(6, 1), Pt(5, 4), Pt(1, 5) >>,
    << Pt(0, 0), Pt(3, 1), Pt(4, 4), Pt(1, 3) >>,
    << Pt(2, 2), Pt(2, 2), Pt(2, 2), Pt(2, 2) >>,
    << Pt(0, 0), Pt(1, 1), Pt(2, 2), Pt(0, 3) >>,
    << Pt(3, 0), Pt(0, 0), Pt(0, 4), Pt(3, 4) >>,
    << Pt(1, 2), Pt(5, 1), Pt(6, 6), Pt(0, 5) >>,
    << Pt(0, 0), Pt(4, 0), Pt(3, 3), Pt(1, 3) >> }

InitHomography ==
  /\ NoCalls
  /\ probe \in {[kind |-> "points", src |-> s, dst |-> d] : s \in SrcQuads, d \in DstQuads}
  /\ outcome = NoOutcome

\* computeHomography on the correspondences, then applyHomography on each
\* source point.
SolveAndApply ==
  /\ probe.kind = "points"
  /\ outcome = NoOutcome
  /\ \E H \in {computeHomography(probe.src, probe.dst)} :
       outcome' = [kind |-> "homography", H |-> H,
                   mapped |-> [i \in 1..4 |->
                                 applyHomography(H, probe.src[i].x, probe.src[i].y)]]
  /\ UNCHANGED <<callVars, probe>>

NextHomography == SolveAndApply

SpecHomography == InitHomography /\ [][NextHomography]_vars

\* No three of the four points lie on one line.
GeneralPosition(q) ==
  \A i, j, k \in 1..4 :
    (i < j /\ j < k) =>
      RSub(RMul(RSub(q[j].x, q[i].x), RSub(q[k].y, q[i].y)),
           RMul(RSub(q[j].y, q[i].y), RSub(q[k].x, q[i].x))) # RInt(0)

\* |a - b| <= 1e-6
WithinMillionth(a, b) ==
  LET diff == RAbs(RSub(a, b))
  IN  diff[1] = 0 \/ (diff[1] < 2000 /\ diff[1] * 1000000 <= diff[2])

\* C13: for source points in general position the solved homography maps
\* each source point to its destination point within 1e-6, and its ninth
\* entry is 1.
C13_ExactFit ==
  (outcome.kind = "homography" /\ GeneralPosition(probe.src)) =>
    /\ outcome.H[9] = RInt(1)
    /\ \A i \in 1..4 :
         /\ WithinMillionth(outcome.mapped[i].x, probe.dst[i].x)
         /\ WithinMillionth(outcome.mapped[i].y, probe.dst[i].y)

----------------------------------------------------------------------------
(* 19. subpixelEdgePosition applied to strips                              *)

MaxStrip == 5

\* Sample values of a strip, scaled by 16.
StripValues == {0, 16, 48}

Strips == UNION {[1..n -> StripValues] : n \in 0..MaxStrip}

InitStrip ==
  /\ NoCalls
  /\ probe \in {[kind |-> "strip", strip |-> Arr(f, Len(f))] : f \in Strips}
  /\ outcome = NoOutcome

Locate ==
  /\ probe.kind = "strip"
  /\ outcome = NoOutcome
  /\ outcome' = [kind |-> "position", pos |-> subpixelEdgePosition(probe.strip)]
  /\ UNCHANGED <<callVars, probe>>

NextStrip == Locate

SpecStrip == InitStrip /\ [][NextStrip]_vars

\* The strip is a clean step whose second level starts at index k (from 0):
\* one value on 0..k-1, another on k..n-1, at least one sample of each.
IsStepAt(strip, k) ==
  /\ k \in 1..(Len(strip) - 1)
  /\ \A i \in 0..(k - 1) : At(strip, i) = At(strip, 0)
  /\ \A i \in k..(Len(strip) - 1) : At(strip, i) = At(strip, k)
  /\ At(strip, 0) # At(strip, k)

centralDifference(strip, i) == Abs(At(strip, i + 1) - At(strip, i - 1))

\* The first index at which the central difference is greatest.
FirstMaxIndex(strip) ==
  LET inner == 1..(Len(strip) - 2)
  IN  CHOOSE i \in inner :
        /\ \A j \in inner : centralDifference(strip, j) <= centralDifference(strip, i)
        /\ \A j \in inner : j < i => centralDifference(strip, j) < centralDifference(strip, i)

WithinHalf(a, b) == RLeq(RAbs(RSub(a, b)), <<1, 2>>)

Located == outcome.kind = "position"

\* On a clean step the result is within 0.5 of the discontinuity, which lies
\* midway between the last sample of the first level and the first sample
\* of the second.
StepLocated ==
  \A k \in 1..MaxStrip :
    IsStepAt(probe.strip, k) => WithinHalf(outcome.pos, Rat(2 * k - 1, 2))

\* C14 as stated: on a clean step the result is within 0.5 of the
\* discontinuity, and in general the result is the index of the first
\* greatest central difference plus an offset in [-0.5, 0.5].
C14_FirstMaxPlusOffset ==
  Located =>
    /\ StepLocated
    /\ Len(probe.strip) >= 3 =>
          WithinHalf(outcome.pos, RInt(FirstMaxIndex(probe.strip)))

\* C14, amended: on a clean step the result is within 0.5 of the
\* discontinuity; for a strip of at least 3 samples with a positive central
\* difference the result is the index of the first greatest central
\* difference plus an offset in [-0.5, 0.5]; when every central difference
\* is 0 the result is 0, and a strip of fewer than 3 samples gives half its
\* length.
C14_SubpixelPosition ==
  Located =>
    LET strip == probe.strip
        n == Len(strip)
        flat == \A i \in 1..(n - 2) : centralDifference(strip, i) = 0
    IN  /\ StepLocated
        /\ (n >= 3 /\ ~flat) => WithinHalf(outcome.pos, RInt(FirstMaxIndex(strip)))
        /\ (n >= 3 /\ flat) => outcome.pos = RInt(0)
        /\ n < 3 => outcome.pos = Rat(n, 2)

C14_Witness ==
  /\ Located
  /\ probe.strip = <<16, 16, 48, 48, 48>>
  /\ IsStepAt(probe.strip, 2)
  /\ outcome.pos = <<3, 2>>

----------------------------------------------------------------------------
(* 20. The background recommendation                                       *)

\* Backgrounds: a rounded average luminance analyzeBackground may print, or
\* an image with coarse edges for analyzeBackground to sample.  The edges
\* "full" leave no pixel outside the card.
BackgroundEdges ==
  [full  |-> [left |-> RInt(0), right |-> RInt(9), top |-> RInt(0), bottom |-> RInt(13)],
   inner |-> [left |-> RInt(3), right |-> RInt(6), top |-> RInt(4), bottom |-> RInt(9)]]

Backgrounds ==
  {[from |-> "luminance", lum |-> l] : l \in 0..255}
    \cup {[from |-> "image", bg |-> c, edges |-> e] :
            c \in DOMAIN Palette, e \in DOMAIN BackgroundEdges}

InitBackground ==
  /\ NoCalls
  /\ probe \in {[kind |-> "background", borderColor |-> c, background |-> b] :
                  c \in BorderColors, b \in Backgrounds}
  /\ outcome = NoOutcome

\* Lines 817-818: bgInfo, then the recommendation for the border colour.
Recommend ==
  /\ probe.kind = "background"
  /\ outcome = NoOutcome
  /\ LET b == probe.background
     IN  \E bgInfo \in {IF b.from = "luminance" THEN bgInfoText(b.lum, "unknown")
                        ELSE analyzeBackground(
                               RectImage(10, 14, b.bg, P.black, 3, 7, 4, 10),
                               BackgroundEdges[b.edges])} :
           outcome' = [kind |-> "recommendation", bgInfo |-> bgInfo,
                       text |-> getBackgroundRecommendation(probe.borderColor, bgInfo)]
  /\ UNCHANGED <<callVars, probe>>

NextBackground == Recommend

SpecBackground == InitBackground /\ [][NextBackground]_vars

\* The luminance band in which a border colour gets a recommendation.
InBand(borderColor, lum) ==
  \/ borderColor = "black" /\ lum < 100
  \/ borderColor = "white" /\ lum > 180
  \/ borderColor = "yellow" /\ lum > 140 /\ lum < 220
  \/ borderColor = "silver" /\ lum > 130 /\ lum < 200

\* The rounded average luminance of the sampled background.
RoundedLuminance ==
  IF probe.background.from = "luminance" THEN probe.background.lum
  ELSE luminance1000(Palette[probe.background.bg][1], Palette[probe.background.bg][2],
                     Palette[probe.background.bg][3]) \div 1000

\* C15: a recommendation is given only when a background was sampled and
\* its rounded luminance lies in the band of the border colour; none is
\* given for border colour "unknown", nor when no background pixel was
\* sampled.
C15_RecommendationBands ==
  outcome.kind = "recommendation" =>
    /\ outcome.text # "null" =>
          ~outcome.bgInfo.null /\ InBand(probe.borderColor, RoundedLuminance)
    /\ probe.borderColor = "unknown" => outcome.text = "null"
    /\ outcome.bgInfo.null => outcome.text = "null"
    /\ outcome.bgInfo.null <=>
          (probe.background.from = "image" /\ probe.background.edges = "full")

C15_Witness ==
  /\ outcome.kind = "recommendation"
  /\ probe.borderColor = "yellow"
  /\ probe.background.from = "image"
  /\ probe.background.bg = P.silver
  /\ ~outcome.bgInfo.null
  /\ outcome.text = "yellow"

----------------------------------------------------------------------------
(* 21. median applied to arrays                                            *)

MaxLen == 4

MedianValues == {RInt(1), RInt(2), RInt(3), RInt(4)}

Arrays == UNION {[1..n -> MedianValues] : n \in 0..MaxLen}

\* Variant of medianCall: the array is sorted in place, without the copy.
medianCallInPlace(arr) == [value |-> median(arr), arr |-> SortRat(arr)]

\* A call of median: the value returned and the caller's array afterwards.
\* Line 58 sorts a copy (arr.slice()), so the array is left as it was.
medianCall(arr) == [value |-> median(arr), arr |-> arr]

InitMedian ==
  /\ NoCalls
  /\ probe \in {[kind |-> "array", arr |-> Arr(f, Len(f))] : f \in Arrays}
  /\ outcome = NoOutcome

TakeMedian ==
  /\ probe.kind = "array"
  /\ outcome = NoOutcome
  /\ \E call \in {medianCall(probe.arr)} :
       outcome' = [kind |-> "median", value |-> call.value, arr |-> call.arr]
  /\ UNCHANGED <<callVars, probe>>

NextMedian == TakeMedian

SpecMedian == InitMedian /\ [][NextMedian]_vars

\* The k-th smallest element of arr (k from 1), found by counting.
KthSmallest(arr, k) ==
  CHOOSE v \in {arr[i] : i \in 1..Len(arr)} :
    /\ Cardinality({i \in 1..Len(arr) : RLess(arr[i], v)}) < k
    /\ Cardinality({i \in 1..Len(arr) : RLeq(arr[i], v)}) >= k

\* The rearrangements of arr.
Rearrangements(arr) ==
  LET n == Len(arr)
  IN  {Arr([i \in 1..n |-> arr[f[i]]], n) :
         f \in {g \in [1..n -> 1..n] : \A i, j \in 1..n : g[i] = g[j] => i = j}}

\* C16: median is the middle element of the sorted input for odd length,
\* the mean of the two middle elements for even length and 0 for the empty
\* array; it is the same for every order of the input, and the input array
\* is as it was after the call.
C16_Median ==
  outcome.kind = "median" =>
    LET arr == probe.arr
        n == Len(arr)
    IN  /\ n = 0 => outcome.value = RInt(0)
        /\ n % 2 = 1 => outcome.value = KthSmallest(arr, n \div 2 + 1)
        /\ (n > 0 /\ n % 2 = 0) =>
              outcome.value = RDiv(RAdd(KthSmallest(arr, n \div 2),
                                        KthSmallest(arr, n \div 2 + 1)), RInt(2))
        /\ \A q \in Rearrangements(arr) : median(q) = outcome.value
        /\ outcome.arr = arr
        /\ arr = <<RInt(1), RInt(3), RInt(2)>> => outcome.value = RInt(2)
        /\ arr = <<RInt(1), RInt(2), RInt(3), RInt(4)>> => outcome.value = <<5, 2>>

C16_Witness ==
  /\ outcome.kind = "median"
  /\ probe.arr = <<RInt(4), RInt(1), RInt(3), RInt(2)>>
  /\ outcome.value = <<5, 2>>
  /\ outcome.arr = probe.arr

----------------------------------------------------------------------------
(* 22. The checks of classifyPixelColor                                    *)

spread(r, g, b) == Max(r, Max(g, b)) - Min(r, Min(g, b))

\* Variant of yellowRule: the conditions on the blue channel are left out.
yellowRuleLoose(r, g, b) == r > 170 /\ g > 150

\* The four checks of lines 71-82, each on its own.
yellowRule(r, g, b) == r > 170 /\ g > 150 /\ b < 120 /\ 2 * r > 3 * b /\ 10 * g > 13 * b

silverRule(r, g, b) ==
  /\ spread(r, g, b) < 35
  /\ luminance1000(r, g, b) > 120000 /\ luminance1000(r, g, b) < 210000

whiteRule(r, g, b) == luminance1000(r, g, b) > 210000 /\ spread(r, g, b) < 50

blackRule(r, g, b) == luminance1000(r, g, b) < 60000

ruleHolds(c, r, g, b) ==
  CASE c = "yellow" -> yellowRule(r, g, b)
    [] c = "silver" -> silverRule(r, g, b)
    [] c = "white"  -> whiteRule(r, g, b)
    [] c = "black"  -> blackRule(r, g, b)

\* The classification when the checks are made in the given order.
classifyInOrder(order, r, g, b) ==
  LET hits == {k \in 1..Len(order) : ruleHolds(order[k], r, g, b)}
  IN  IF hits = {} THEN "unknown" ELSE order[SetMin(hits)]

SourceOrder == <<"yellow", "silver", "white", "black">>

CheckOrders ==
  {o \in [1..4 -> {"yellow", "silver", "white", "black"}] :
     \A i, j \in 1..4 : o[i] = o[j] => i = j}

\* Channel values around the thresholds of the checks.  A scan line fixes
\* red and green and runs over every blue value.
ChannelSamples ==
  <<0, 59, 60, 119, 120, 150, 151, 170, 171, 180, 205, 206, 210, 211, 240, 255>>

NumLines == Len(ChannelSamples) * Len(ChannelSamples)

lineRed(n) == ChannelSamples[(n \div Len(ChannelSamples)) + 1]

lineGreen(n) == ChannelSamples[(n % Len(ChannelSamples)) + 1]

InitClassify ==
  /\ NoCalls
  /\ probe = [kind |-> "scan", line |-> 0]
  /\ outcome = [kind |-> "classes", yellow |-> 0, overlap |-> {}, sensitive |-> {}]

\* classifyPixelColor on every pixel of the next line: the pixels classified
\* yellow are counted, those that pass the yellow check and the spread test
\* of the silver check are collected, and so are those whose class depends
\* on the order of the checks.
ClassifyLine ==
  /\ probe.kind = "scan"
  /\ probe.line < NumLines
  /\ \E r \in {lineRed(probe.line)} : \E g \in {lineGreen(probe.line)} :
       \E classes \in {[b \in 0..255 |-> classifyPixelColor(r, g, b)]} :
         outcome' =
           [kind |-> "classes",
            yellow |-> outcome.yellow + Cardinality({b \in 0..255 : classes[b] = "yellow"}),
            overlap |-> outcome.overlap \cup
                          {<<r, g, b>> : b \in {c \in 0..255 :
                                yellowRule(r, g, c) /\ spread(r, g, c) < 35}},
            sensitive |-> outcome.sensitive \cup
                          {<<r, g, b>> : b \in {c \in 0..255 :
                                \E o \in CheckOrders :
                                  classifyInOrder(o, r, g, c) # classes[c]}}]
  /\ probe' = [probe EXCEPT !.line = @ + 1]
  /\ UNCHANGED callVars

NextClassify == ClassifyLine

SpecClassify == InitClassify /\ [][NextClassify]_vars

ScanComplete == probe.kind = "scan" /\ probe.line = NumLines

\* C17 as stated: some pixel passes the yellow check and the spread test of
\* the silver check, and the class of some pixel depends on the order of
\* the checks.
C17_OrderMatters ==
  ScanComplete => (outcome.overlap # {} /\ outcome.sensitive # {})

\* C17, amended: no pixel passes the yellow check and also the spread test
\* of the silver check, and no pixel's class changes when the four checks
\* are made in another order.
C17_ChecksExclusive ==
  probe.kind = "scan" => (outcome.overlap = {} /\ outcome.sensitive = {})

C17_Witness ==
  /\ ScanComplete
  /\ outcome.yellow > 0
  /\ outcome.overlap = {}
  /\ outcome.sensitive = {}

----------------------------------------------------------------------------
(* 23. The scan lines of findCardEdges                                     *)

\* A 10 x 10 raster with a rectangle that leaves the first row and column to
\* the background, and a gradient field: 16 |gx| is 5 everywhere (so the
\* threshold sits on the weak pixels) and 10 on the even rows of the columns
\* vcols; 16 |gy| is 0 and 10 on the even columns of the rows hrows.
ScanSize == [w |-> 10, h |-> 10]

ScanProbes ==
  {[kind |-> "scan", borderColor |-> c, bg |-> bg, fg |-> fg, vcols |-> v, hrows |-> r] :
     c \in BorderColors, bg \in DOMAIN Palette, fg \in {P.black, P.yellow, P.green},
     v \in {{}, {1}, {3}, {8}, {1, 3}, {3, 8}}, r \in {{}, {3}, {1, 8}}}

ScanImage == RectImage(ScanSize.w, ScanSize.h, probe.bg, probe.fg, 1, 10, 1, 10)

ScanDirV ==
  Arr([j \in 1..(ScanSize.w * ScanSize.h) |->
         IF ((j - 1) % ScanSize.w) \in probe.vcols /\ ((j - 1) \div ScanSize.w) % 2 = 0
         THEN 10 ELSE 5], ScanSize.w * ScanSize.h)

ScanDirH ==
  Arr([j \in 1..(ScanSize.w * ScanSize.h) |->
         IF ((j - 1) \div ScanSize.w) \in probe.hrows /\ ((j - 1) % ScanSize.w) % 2 = 0
         THEN 10 ELSE 0], ScanSize.w * ScanSize.h)

ScanMag2 ==
  Arr([j \in 1..(ScanSize.w * ScanSize.h) |->
         ScanDirV[j] * ScanDirV[j] + ScanDirH[j] * ScanDirH[j]], ScanSize.w * ScanSize.h)

InitScan ==
  /\ NoCalls
  /\ probe \in ScanProbes
  /\ outcome = NoOutcome

\* Lines 226-293: the threshold and the four scans.
Scan ==
  /\ probe.kind = "scan"
  /\ outcome = NoOutcome
  /\ \E mag2 \in {ScanMag2} :
       outcome' = [kind |-> "points", thr2 |-> threshold2(mag2),
                   pts |-> scanPoints(mag2, ScanDirH, ScanDirV, ScanSize.w, ScanSize.h,
                                      probe.borderColor, ScanImage)]
  /\ UNCHANGED <<callVars, probe>>

NextScan == Scan

SpecScan == InitScan /\ [][NextScan]_vars

\* The positions a scan visits on one line, in the order it visits them:
\* from the margin while below 40% of the dimension, or from the far margin
\* while above 60% of it.
NearCands(dim) ==
  LET m == (3 * dim) \div 100
      n == Max(0, ((2 * dim + 4) \div 5) - m)
  IN  [k \in 1..n |-> m + k - 1]

FarCands(dim) ==
  LET m == (3 * dim) \div 100
      n == Max(0, dim - m - 1 - ((3 * dim) \div 5))
  IN  [k \in 1..n |-> dim - m - k]

\* The first position of cands that is Ok, or -1.
FirstMet(cands, Ok(_)) ==
  LET hits == {k \in DOMAIN cands : Ok(cands[k])}
  IN  IF hits = {} THEN -1 ELSE cands[SetMin(hits)]

\* One point per scan line that has one, in the order of the lines.
PointsAlong(lines, cands, Ok(_, _)) ==
  SelectSeq(Arr([k \in 1..Len(lines) |-> FirstMet(cands, LAMBDA v : Ok(lines[k], v))],
                Len(lines)),
            LAMBDA v : v >= 0)

\* The points of the four sides when a pixel yields a point exactly if its
\* directional strength is strictly above the threshold and the class of
\* its neighbour (two pixels outwards, clamped to the image) is Compatible.
PointsWhere(Compatible(_)) ==
  LET w == ScanSize.w
      h == ScanSize.h
      strong(dir, x, y) == At(dir, y * w + x) * At(dir, y * w + x) > outcome.thr2
      class(x, y) == classifyAt(ScanImage, clamp(x, 0, w - 1), clamp(y, 0, h - 1))
      rows == scanLines((3 * h) \div 100, h)
      cols == scanLines((3 * w) \div 100, w)
      okLeft(y, x)   == strong(ScanDirV, x, y) /\ Compatible(class(x - 2, y))
      okRight(y, x)  == strong(ScanDirV, x, y) /\ Compatible(class(x + 2, y))
      okTop(x, y)    == strong(ScanDirH, x, y) /\ Compatible(class(x, y - 2))
      okBottom(x, y) == strong(ScanDirH, x, y) /\ Compatible(class(x, y + 2))
  IN  [left   |-> PointsAlong(rows, NearCands(w), okLeft),
       right  |-> PointsAlong(rows, FarCands(w), okRight),
       top    |-> PointsAlong(cols, NearCands(h), okTop),
       bottom |-> PointsAlong(cols, FarCands(h), okBottom)]

MatchesBorder(c) == probe.borderColor = "unknown" \/ c = probe.borderColor

MatchesBorderOrUnknown(c) == MatchesBorder(c) \/ c = "unknown"

\* C18 as stated: a pixel yields a point only if its strength is strictly
\* above the threshold and its neighbour's class equals the border colour
\* (any class when the border colour is "unknown"); each line records the
\* first such pixel and no other.
C18_MatchingNeighbourOnly ==
  outcome.kind = "points" => outcome.pts = PointsWhere(MatchesBorder)

\* C18, amended: the neighbour's class must equal the border colour or be
\* "unknown" (any class when the border colour is "unknown"); a neighbour of
\* another named colour never yields a point; each line records the first
\* such pixel and no other.
C18_CompatibleNeighbour ==
  outcome.kind = "points" => outcome.pts = PointsWhere(MatchesBorderOrUnknown)

\* The first strong pixel of a row has a white neighbour and is passed
\* over; the next one has a black neighbour and is recorded.
C18_Witness ==
  /\ outcome.kind = "points"
  /\ probe.borderColor = "black" /\ probe.bg = P.white /\ probe.fg = P.black
  /\ probe.vcols = {1, 3}
  /\ outcome.pts.left = <<3, 3, 3, 3>>

----------------------------------------------------------------------------
(* 24. The aspect ratio constraint on its own                              *)

\* Lines 296-320 applied to the collected points: the box as aggregated and
\* the box after the constraint.
Constrain ==
  /\ probe.kind = "points"
  /\ outcome = NoOutcome
  /\ \E pts \in {[left |-> PointSeq(probe.left), right |-> PointSeq(probe.right),
                    top |-> PointSeq(probe.top), bottom |-> PointSeq(probe.bottom)]} :
       \E e \in {aggregated(probe.w, probe.h, pts)} :
         outcome' = [kind |-> "box", before |-> e, after |-> aspectCorrected(e, pts)]
  /\ UNCHANGED <<callVars, probe>>

NextAspect == Constrain

SpecAspect == InitEdges /\ [][NextAspect]_vars

BoxWidth(e) == RSub(e.right, e.left)

BoxHeight(e) == RSub(e.bottom, e.top)

\* |width / height - 5/7| > 0.15
AspectOff(e) ==
  RLess(<<3, 20>>, RAbs(RSub(RDiv(BoxWidth(e), BoxHeight(e)), <<5, 7>>)))

HorizontalCount == probe.left[1] + probe.right[1]

VerticalCount == probe.top[1] + probe.bottom[1]

\* The vertical axis of box a is that of box b rescaled about its centre to
\* the aspect 5/7, the horizontal edges being those of b.
VerticalRescaled(b, a) ==
  /\ a.left = b.left /\ a.right = b.right
  /\ RAdd(a.top, a.bottom) = RAdd(b.top, b.bottom)
  /\ RMul(BoxHeight(a), <<5, 7>>) = BoxWidth(a)

HorizontalRescaled(b, a) ==
  /\ a.top = b.top /\ a.bottom = b.bottom
  /\ RAdd(a.left, a.right) = RAdd(b.left, b.right)
  /\ RMul(BoxHeight(a), <<5, 7>>) = BoxWidth(a)

\* C19 as stated: within 0.15 of 5/7 no edge changes; otherwise only the
\* axis with the smaller total of points is rescaled to the aspect 5/7
\* about its centre, the other axis staying as aggregated.
C19_SmallerCountRescaled ==
  outcome.kind = "box" =>
    LET b == outcome.before
        a == outcome.after
    IN  /\ ~AspectOff(b) => a = b
        /\ (AspectOff(b) /\ VerticalCount < HorizontalCount) => VerticalRescaled(b, a)
        /\ (AspectOff(b) /\ HorizontalCount < VerticalCount) => HorizontalRescaled(b, a)
        /\ (a.left # b.left \/ a.right # b.right) => HorizontalCount < VerticalCount
        /\ (a.top # b.top \/ a.bottom # b.bottom) => VerticalCount < HorizontalCount

\* C19, amended: within 0.15 of 5/7 no edge changes; otherwise the vertical
\* axis is rescaled when the left and right sides hold more points than the
\* top and bottom ones, and the horizontal axis is rescaled when they hold
\* fewer or as many; the rescaled axis keeps its centre, the box gets the
\* aspect 5/7 and the other axis stays as aggregated.
C19_AspectCorrection ==
  outcome.kind = "box" =>
    LET b == outcome.before
        a == outcome.after
    IN  /\ ~AspectOff(b) => a = b
        /\ (AspectOff(b) /\ VerticalCount < HorizontalCount) => VerticalRescaled(b, a)
        /\ (AspectOff(b) /\ HorizontalCount <= VerticalCount) => HorizontalRescaled(b, a)

C19_Witness ==
  /\ outcome.kind = "box"
  /\ AspectOff(outcome.before)
  /\ VerticalCount < HorizontalCount
  /\ outcome.after.top # outcome.before.top
  /\ outcome.after.left = outcome.before.left
  /\ VerticalRescaled(outcome.before, outcome.after)

----------------------------------------------------------------------------
(* 25. The corners handed to refineCorners                                 *)

\* 20 x 28 rasters with a black rectangle on each background.
CornerScenes ==
  [kind : {"raster"}, bg : {P.white, P.yellow, P.silver, P.green, P.gray},
   l : {2, 4}, r : {16, 18}, t : {3, 5}, b : {23, 25}]

InitCorners ==
  /\ NoCalls
  /\ probe \in CornerScenes
  /\ outcome = NoOutcome

\* Lines 767-785: the stages up to the corners; handed is rawCorners after
\* line 784 and refined is rawCorners after line 785.
FormCorners ==
  /\ probe.kind = "raster"
  /\ outcome = NoOutcome
  /\ \E img \in {RectImage(20, 28, probe.bg, P.black, probe.l, probe.r, probe.t, probe.b)} :
       \E border \in {detectBorderColor(img)} :
         \E grad \in {buildGradient(img)} :
           \E found \in {locateEdges(img, grad.sobel, border.color)} :
             \E edges \in {measureEdgesSubpixel(grad.blurred, img.w, img.h, found.edges)} :
               \E handed \in {cornersFromEdges(edges)} :
                 outcome' = [kind |-> "corners", rawEdges |-> found.edges, edges |-> edges,
                             handed |-> handed,
                             refined |-> refineCorners(handed, grad.sobel.mag2, img.w, img.h)]
  /\ UNCHANGED <<callVars, probe>>

NextCorners == FormCorners

SpecCorners == InitCorners /\ [][NextCorners]_vars

\* (left, top), (right, top), (right, bottom), (left, bottom) of a box.
RectangleOf(e) ==
  << [x |-> e.left, y |-> e.top], [x |-> e.right, y |-> e.top],
     [x |-> e.right, y |-> e.bottom], [x |-> e.left, y |-> e.bottom] >>

\* C20 as stated: the corners handed to the refinement are the rectangle
\* corners of the coarse edges found by findCardEdges.
C20_CornersOfCoarseEdges ==
  outcome.kind = "corners" => outcome.handed = RectangleOf(outcome.rawEdges)

\* C20, amended: the corners handed to the refinement are the rectangle
\* corners (left, top), (right, top), (right, bottom), (left, bottom) of the
\* sub-pixel edges measured from the coarse ones.
C20_CornersOfSubpixelEdges ==
  outcome.kind = "corners" => outcome.handed = RectangleOf(outcome.edges)

C20_Witness ==
  /\ outcome.kind = "corners"
  /\ outcome.edges # outcome.rawEdges
  /\ outcome.handed = RectangleOf(outcome.edges)
  /\ outcome.handed[1] # outcome.handed[3]

----------------------------------------------------------------------------
(* 26. refineCorners on a magnitude field                                  *)

\* A 40 x 20 magnitude field that is 0 except at four interior pixels.
RefineSize == [w |-> 40, h |-> 20]

PeakAt == << <<16, 1>>, <<4, 3>>, <<30, 2>>, <<23, 17>> >>

PeakValues == {0, 25, 81}

RefineProbes ==
  [kind : {"refine"}, peaks : [1..4 -> PeakValues],
   l : {<<0, 1>>, <<1, 2>>, <<3, 1>>}, r : {<<20, 1>>, <<73, 2>>, <<39, 1>>},
   t : {<<0, 1>>, <<1, 2>>}, b : {<<16, 1>>, <<19, 1>>}]

RefineField(peaks) ==
  Arr([j \in 1..(RefineSize.w * RefineSize.h) |->
         LET here == {k \in 1..4 : PeakAt[k] = <<(j - 1) % RefineSize.w, (j - 1) \div RefineSize.w>>}
         IN  IF here = {} THEN 0 ELSE peaks[CHOOSE k \in here : TRUE]],
      RefineSize.w * RefineSize.h)

InitRefine ==
  /\ NoCalls
  /\ probe \in RefineProbes
  /\ outcome = NoOutcome

\* Line 785: refineCorners(rawCorners, mag, w, h) on the rectangle corners.
Refine ==
  /\ probe.kind = "refine"
  /\ outcome = NoOutcome
  /\ \E corners \in {cornersFromEdges([left |-> probe.l, right |-> probe.r,
                                       top |-> probe.t, bottom |-> probe.b])} :
       \E mag2 \in {RefineField(probe.peaks)} :
         outcome' = [kind |-> "refined", corners |-> corners, mag2 |-> mag2,
                     refined |-> refineCorners(corners, mag2, RefineSize.w, RefineSize.h)]
  /\ UNCHANGED <<callVars, probe>>

NextRefine == Refine

SpecRefine == InitRefine /\ [][NextRefine]_vars

\* The in-bounds pixels <<x, y>> of the 31 x 31 window centred on the
\* rounded corner.
WindowOf(corner) ==
  {p \in (0..(RefineSize.w - 1)) \X (0..(RefineSize.h - 1)) :
     /\ Abs(p[1] - RRound(corner.x)) <= searchRadius
     /\ Abs(p[2] - RRound(corner.y)) <= searchRadius}

MagnitudeAt(p) == outcome.mag2[p[2] * RefineSize.w + p[1] + 1]

\* The first pixel in scan order (rows top to bottom, columns left to
\* right) among the pixels of S.
FirstInScan(S) ==
  LET y == SetMin({p[2] : p \in S})
  IN  <<SetMin({p[1] : p \in {q \in S : q[2] = y}}), y>>

\* The pixels of the window that hold its largest magnitude.
Maxima(corner) ==
  With(SetMax({MagnitudeAt(p) : p \in WindowOf(corner)}), LAMBDA best :
    {p \in WindowOf(corner) : MagnitudeAt(p) = best})

PixelOf(c) == IF c.x[2] = 1 /\ c.y[2] = 1 THEN <<c.x[1], c.y[1]>> ELSE <<-1, -1>>

\* C21 as stated: every corner is moved to the first pixel in scan order
\* holding the largest magnitude of its window, and the refined corner is
\* always an in-bounds pixel within 15 px of the rounded original.
C21_MovedToFirstMaximum ==
  outcome.kind = "refined" =>
    \A k \in 1..4 :
      /\ PixelOf(outcome.refined[k]) = FirstInScan(Maxima(outcome.corners[k]))
      /\ PixelOf(outcome.refined[k]) \in WindowOf(outcome.corners[k])

\* C21, amended: a corner whose window holds a magnitude above 0 is moved to
\* the first pixel in scan order holding the window's largest magnitude, an
\* in-bounds pixel within 15 px of the rounded corner; a corner whose window
\* holds no magnitude above 0 is returned as given, unrounded.  Each corner
\* is refined from its own window only.
C21_RefinedCorner ==
  outcome.kind = "refined" =>
    \A k \in 1..4 :
      IF \E p \in WindowOf(outcome.corners[k]) : MagnitudeAt(p) > 0
      THEN /\ PixelOf(outcome.refined[k]) = FirstInScan(Maxima(outcome.corners[k]))
           /\ PixelOf(outcome.refined[k]) \in WindowOf(outcome.corners[k])
      ELSE outcome.refined[k] = outcome.corners[k]

\* Two pixels tie for the largest magnitude in the window of the first
\* corner, the later one in scan order lying further left; another corner
\* has an empty window and keeps its fractional position.
C21_Witness ==
  /\ outcome.kind = "refined"
  /\ probe.peaks[1] = 81 /\ probe.peaks[2] = 81
  /\ {PeakAt[1], PeakAt[2]} \subseteq WindowOf(outcome.corners[1])
  /\ PixelOf(outcome.refined[1]) = PeakAt[1]
  /\ \E k \in 2..4 :
       /\ \A p \in WindowOf(outcome.corners[k]) : MagnitudeAt(p) = 0
       /\ outcome.refined[k] = outcome.corners[k]
       /\ PixelOf(outcome.corners[k]) = <<-1, -1>>

----------------------------------------------------------------------------
(* 27. The backward mapping of perspectiveCorrect                          *)

\* Line 535 with the margin left out: sx < srcW and sy < srcH.
insideSourceNoMargin(sx, sy, srcW, srcH) ==
  ~(RLess(sx, RInt(0)) \/ RLeq(RInt(srcW), sx) \/ RLess(sy, RInt(0)) \/ RLeq(RInt(srcH), sy))

\* Line 535: the destination pixel is resampled unless
\* sx < 0 || sx >= srcW - 1 || sy < 0 || sy >= srcH - 1.
insideSource(sx, sy, srcW, srcH) ==
  ~(RLess(sx, RInt(0)) \/ RLeq(RInt(srcW - 1), sx)
      \/ RLess(sy, RInt(0)) \/ RLeq(RInt(srcH - 1), sy))

\* srcData.data[i]: four bytes per pixel, alpha 255.
channelAt(img, i) ==
  IF i % 4 = 3 THEN 255 ELSE Palette[At(img.data, i \div 4)][(i % 4) + 1]

\* An index of the typed array srcData.data; at any other index the read
\* yields undefined, the weighted sum is NaN, and the byte stored is 0.
definedAt(img, i) == i >= 0 /\ i < img.w * img.h * 4

\* Lines 530-556 for the destination pixel (dx, dy): the mapped source
\* coordinate, the indices read and written, and the four bytes stored
\* (createImageData starts every byte at 0).
resamplePixel(Hinv, img, outW, dx, dy) ==
  With(applyHomography(Hinv, RInt(dx), RInt(dy)), LAMBDA sp :
    IF ~insideSource(sp.x, sp.y, img.w, img.h)
    THEN [sp |-> sp, written |-> FALSE, reads |-> {}, writes |-> {}, rgba |-> <<0, 0, 0, 0>>]
    ELSE LET x0 == RFloor(sp.x)
             y0 == RFloor(sp.y)
             fx == RSub(sp.x, RInt(x0))
             fy == RSub(sp.y, RInt(y0))
             gx == RSub(RInt(1), fx)
             gy == RSub(RInt(1), fy)
             i00 == (y0 * img.w + x0) * 4
             i10 == i00 + 4
             i01 == i00 + img.w * 4
             i11 == i01 + 4
             outIdx == (dy * outW + dx) * 4
             term(i, a, b) == RMul(RMul(RInt(channelAt(img, i)), a), b)
         IN  [sp |-> sp, written |-> TRUE,
              reads |-> {i + c : i \in {i00, i10, i01, i11}, c \in 0..3},
              writes |-> {outIdx + c : c \in 0..3},
              rgba |-> [k \in 1..4 |->
                          IF \E i \in {i00, i10, i01, i11} : ~definedAt(img, i + k - 1) THEN 0
                          ELSE RRound(RAdd(RAdd(term(i00 + k - 1, gx, gy), term(i10 + k - 1, fx, gy)),
                                           RAdd(term(i01 + k - 1, gx, fy), term(i11 + k - 1, fx, fy))))]])

\* Lines 528-558: one record per destination pixel, in row order.
resample(Hinv, img, outW, outH) ==
  [j \in 1..(outW * outH) |-> resamplePixel(Hinv, img, outW, (j - 1) % outW, (j - 1) \div outW)]

\* Lines 486-514: the inverse homography from the output rectangle to the
\* corners, and the resampled output.
rectify(img, corners) ==
  IF skewBelowLimit(corners) THEN [kind |-> "null"]
  ELSE With(outputSize(corners), LAMBDA out :
         With(computeHomography(<< Pt(0, 0), Pt(out.w, 0), Pt(out.w, out.h), Pt(0, out.h) >>,
                                corners), LAMBDA Hinv :
           [kind |-> "resampled", outW |-> out.w, outH |-> out.h, Hinv |-> Hinv,
            out |-> resample(Hinv, img, out.w, out.h)]))

\* Source rasters of 7 x 8 pixels and quadrilaterals over them, some with
\* corners outside the raster.
ResampleImages ==
  {RectImage(7, 8, bg, fg, 2, 5, 2, 6) : bg \in {P.white, P.green}, fg \in {P.black, P.yellow}}

\* <<width, height, a1, a2, a3, a4>>: the quadrilateral (0, 0), (width, a1),
\* (width + a2, height + a3), (a4, height), shifted over the raster.
ResampleShapes ==
  { <<3, 5, -1, -1, 1, 0>>, <<3, 5, -1, 0, 1, -1>>, <<3, 4, 1, 1, -1, 1>>, <<3, 4, 0, 0, 0, 1>> }

ResampleQuads ==
  { << Pt(sx, sy), Pt(sx + q[1], sy + q[3]), Pt(sx + q[1] + q[4], sy + q[2] + q[5]),
       Pt(sx + q[6], sy + q[2]) >> :
      sx \in {-2, 0, 1, 3}, sy \in {-1, 0, 2, 3}, q \in ResampleShapes }
  \cup { << Pt(1, 1), Pt(5, 1), Pt(5, 6), Pt(1, 6) >>, << Pt(2, 2), Pt(2, 2), Pt(2, 2), Pt(2, 2) >> }

InitResample ==
  /\ NoCalls
  /\ probe \in [kind : {"resample"}, img : ResampleImages, corners : ResampleQuads]
  /\ outcome = NoOutcome

Resample ==
  /\ probe.kind = "resample"
  /\ outcome = NoOutcome
  /\ outcome' = rectify(probe.img, probe.corners)
  /\ UNCHANGED <<callVars, probe>>

NextResample == Resample

SpecResample == InitResample /\ [][NextResample]_vars

SourceBytes == 0..(probe.img.w * probe.img.h * 4 - 1)

DestinationBytes == 0..(outcome.outW * outcome.outH * 4 - 1)

\* 0 <= sx < srcW - 1 and 0 <= sy < srcH - 1
InValidInterior(sp) ==
  /\ RLeq(RInt(0), sp.x) /\ RLess(sp.x, RInt(probe.img.w - 1))
  /\ RLeq(RInt(0), sp.y) /\ RLess(sp.y, RInt(probe.img.h - 1))

\* C22: a destination pixel is written only if its mapped source coordinate
\* lies in the valid interior, 0 <= sx < srcW - 1 and 0 <= sy < srcH - 1; the
\* sixteen bytes read for it then lie inside the source buffer; every other
\* destination pixel keeps its initial bytes; no read falls outside the
\* source buffer and no write outside the destination buffer.
C22_BackwardMappingInBounds ==
  outcome.kind = "resampled" =>
    \A j \in DOMAIN outcome.out :
      LET px == outcome.out[j]
      IN  /\ px.written => InValidInterior(px.sp)
          /\ px.written => (Cardinality(px.reads) = 16 /\ px.reads \subseteq SourceBytes)
          /\ ~InValidInterior(px.sp) => (~px.written /\ px.rgba = <<0, 0, 0, 0>>)
          /\ px.reads \subseteq SourceBytes
          /\ px.writes \subseteq DestinationBytes
          /\ px.written => px.writes = {4 * (j - 1) + c : c \in 0..3}

\* A rectified output in which some pixels are resampled, one of them from
\* the last admissible source column or row, and others are left untouched
\* because they map outside the valid interior.
C22_Witness ==
  /\ outcome.kind = "resampled"
  /\ \E j \in DOMAIN outcome.out :
       /\ outcome.out[j].written
       /\ outcome.out[j].rgba # <<0, 0, 0, 0>>
       /\ \/ RFloor(outcome.out[j].sp.x) = probe.img.w - 2
          \/ RFloor(outcome.out[j].sp.y) = probe.img.h - 2
  /\ \E j \in DOMAIN outcome.out :
       /\ ~outcome.out[j].written
       /\ ~InValidInterior(outcome.out[j].sp)

----------------------------------------------------------------------------
(* 28. The homography on degenerate correspondences                        *)

\* Quadrilaterals with coincident or collinear points, and regular ones.
DegenerateSrc ==
  { << Pt(0, 0), Pt(2, 0), Pt(2, 3), Pt(0, 3) >>,
    << Pt(1, 0), Pt(1, 1), Pt(2, 1), Pt(2, 3) >>,
    << Pt(2, 2), Pt(2, 2), Pt(2, 2), Pt(2, 2) >>,
    << Pt(0, 0), Pt(1, 1), Pt(2, 2), Pt(0, 3) >>,
    << Pt(0, 0), Pt(4, 0), Pt(3, 3), Pt(1, 3) >>,
    << Pt(0, 0), Pt(0, 0), Pt(3, 4), Pt(0, 4) >> }

DegenerateDst ==
  { << Pt(0, 0), Pt(2, 0), Pt(2, 3), Pt(0, 3) >>,
    << Pt(1, 0), Pt(1, 1), Pt(2, 1), Pt(2, 3) >>,
    << Pt(4, 0), Pt(4, 2), Pt(3, 1), Pt(3, 3) >>,
    << Pt(2, 2), Pt(2, 2), Pt(2, 2), Pt(2, 2) >>,
    << Pt(0, 0), Pt(1, 1), Pt(2, 2), Pt(0, 3) >>,
    << Pt(0, 0), Pt(0, 0), Pt(3, 4), Pt(0, 4) >>,
    << Pt(1, 1), Pt(2, 1), Pt(3, 1), Pt(4, 1) >>,
    << Pt(0, 0), Pt(0, 0), Pt(0, 0), Pt(0, 0) >> }

InitDegenerate ==
  /\ NoCalls
  /\ probe \in [kind : {"degenerate"}, src : DegenerateSrc, dst : DegenerateDst,
                x : {-1, 0, 2, 3}, y : {0, 2, 3}]
  /\ outcome = NoOutcome

\* computeHomography on the correspondences and applyHomography at (x, y);
\* aug is the augmented matrix after the elimination of lines 416-435.
SolveDegenerate ==
  /\ probe.kind = "degenerate"
  /\ outcome = NoOutcome
  /\ \E H \in {computeHomography(probe.src, probe.dst)} :
       outcome' = [kind |-> "solved", H |-> H,
                   aug |-> eliminate(augmented(probe.src, probe.dst), 1),
                   at |-> applyHomography(H, RInt(probe.x), RInt(probe.y))]
  /\ UNCHANGED <<callVars, probe>>

NextDegenerate == SolveDegenerate

SpecDegenerate == InitDegenerate /\ [][NextDegenerate]_vars

\* h6 x + h7 y + h8 at the probed point.
Denominator ==
  RAdd(RAdd(RMul(outcome.H[7], RInt(probe.x)), RMul(outcome.H[8], RInt(probe.y))), outcome.H[9])

\* Some points of the quadrilateral coincide, or three of them lie on a line.
Degenerate(q) == ~GeneralPosition(q)

\* C23: for any four source and destination points, coincident and collinear
\* ones included, computeHomography returns nine entries, the ninth equal to
\* 1, with every coefficient whose pivot is below 1e-12 in magnitude set to
\* 0, and applyHomography returns (0, 0) when |h6 x + h7 y + h8| < 1e-12 and
\* the quotients otherwise.
C23_DegenerateTolerated ==
  outcome.kind = "solved" =>
    /\ Len(outcome.H) = 9
    /\ outcome.H[9] = RInt(1)
    /\ \A row \in 1..8 : Tiny(outcome.aug[row][row]) => outcome.H[row] = RInt(0)
    /\ Tiny(Denominator) => outcome.at = [x |-> RInt(0), y |-> RInt(0)]
    /\ ~Tiny(Denominator) =>
         /\ RMul(outcome.at.x, Denominator)
              = RAdd(RAdd(RMul(outcome.H[1], RInt(probe.x)), RMul(outcome.H[2], RInt(probe.y))),
                     outcome.H[3])
         /\ RMul(outcome.at.y, Denominator)
              = RAdd(RAdd(RMul(outcome.H[4], RInt(probe.x)), RMul(outcome.H[5], RInt(probe.y))),
                     outcome.H[6])

\* Collinear source points: a pivot is negligible, its coefficient is 0 and
\* the denominator vanishes at the probed point, which maps to (0, 0).
C23_Witness ==
  /\ outcome.kind = "solved"
  /\ Degenerate(probe.src)
  /\ \E row \in 1..8 : Tiny(outcome.aug[row][row]) /\ outcome.H[row] = RInt(0)
  /\ outcome.H[9] = RInt(1)
  /\ Tiny(Denominator)
  /\ outcome.at = [x |-> RInt(0), y |-> RInt(0)]

----------------------------------------------------------------------------
(* 29. The outermost ring of the gradient field                            *)

\* The positions (1-based) of the outermost ring of a w x h buffer.
Ring(w, h) ==
  {j \in 1..(w * h) :
     \/ (j - 1) % w = 0 \/ (j - 1) % w = w - 1
     \/ (j - 1) \div w = 0 \/ (j - 1) \div w = h - 1}

\* The call has built the gradient field of its image.
GradientBuilt(c) == Acquired(c) /\ StageRank(pc[c]) > StageRank("BUILD_GRADIENT")

\* C24: on the outermost ring the output of gaussianBlur3x3 equals its
\* grayscale input (the blurred buffer holds 16 times the value), and the
\* magnitude and the two directional strengths of sobelEdges are 0.
C24_RingUnfiltered ==
  \A c \in Calls :
    GradientBuilt(c) =>
      LET fr == frames[Frame(c)]
      IN  \A j \in Ring(fr.imageData.w, fr.imageData.h) :
            /\ fr.gradient.blurred[j] = 16 * fr.gradient.gray[j]
            /\ fr.gradient.sobel.mag2[j] = 0
            /\ fr.gradient.sobel.dirH[j] = 0
            /\ fr.gradient.sobel.dirV[j] = 0

----------------------------------------------------------------------------
(* 30. An image of one colour                                              *)

\* One colour of non-zero luminance on at least 3 x 3 pixels.
Uniform(img) ==
  /\ img.w >= 3 /\ img.h >= 3
  /\ \A j \in 1..(img.w * img.h) : img.data[j] = img.data[1]
  /\ luminance1000(Palette[img.data[1]][1], Palette[img.data[1]][2], Palette[img.data[1]][3]) > 0

\* The call has located the coarse edges of its image.
EdgesLocated(c) == Acquired(c) /\ StageRank(pc[c]) > StageRank("LOCATE_EDGES")

\* C25: on an image of one colour the gradient magnitude is 0 at every
\* pixel, the threshold is the fallback, and findCardEdges returns the edges
\* it forms from no point at all, with confidence 0.
C25_UniformImage ==
  \A c \in Calls :
    (EdgesLocated(c) /\ Uniform(frames[Frame(c)].imageData)) =>
      LET fr == frames[Frame(c)]
          none == [left |-> <<>>, right |-> <<>>, top |-> <<>>, bottom |-> <<>>]
      IN  /\ \A j \in DOMAIN fr.gradient.sobel.mag2 : fr.gradient.sobel.mag2[j] = 0
          /\ threshold2(fr.gradient.sobel.mag2) = FallbackThreshold2
          /\ fr.rawEdges = edgesFromPoints(fr.imageData.w, fr.imageData.h, none).edges
          /\ fr.edgeConfidence = RInt(0)

----------------------------------------------------------------------------
(* 31. The threshold when many magnitudes share the maximum                *)

\* 12 x 12 fields: the vertical strength is strong on the first vlen rows of
\* the columns vcols and weak elsewhere, the horizontal strength is strong
\* on the first hlen columns of the rows hrows and 0 elsewhere.
PlateauSize == [w |-> 12, h |-> 12]

PlateauProbes ==
  [kind : {"plateau"}, borderColor : {"unknown", "black"}, bg : {P.white, P.black},
   vcols : {{}, {2}, {2, 9}}, vlen : {2, 7, 12}, weak : {0, 3},
   hrows : {{}, {2}}, hlen : {3, 12}, strong : {10, 40}]

PlateauDirV(p) ==
  Arr([j \in 1..(PlateauSize.w * PlateauSize.h) |->
         IF ((j - 1) % PlateauSize.w) \in p.vcols /\ (j - 1) \div PlateauSize.w < p.vlen
         THEN p.strong ELSE p.weak], PlateauSize.w * PlateauSize.h)

PlateauDirH(p) ==
  Arr([j \in 1..(PlateauSize.w * PlateauSize.h) |->
         IF ((j - 1) \div PlateauSize.w) \in p.hrows /\ (j - 1) % PlateauSize.w < p.hlen
         THEN p.strong ELSE 0], PlateauSize.w * PlateauSize.h)

InitPlateau ==
  /\ NoCalls
  /\ probe \in PlateauProbes
  /\ outcome = NoOutcome

\* findCardEdges (lines 216-333) on the field: the threshold, the points of
\* the four scans, and the edges and confidence returned.
FindOnPlateau ==
  /\ probe.kind = "plateau"
  /\ outcome = NoOutcome
  /\ \E dirV \in {PlateauDirV(probe)} : \E dirH \in {PlateauDirH(probe)} :
       \E mag2 \in {Arr([j \in 1..Len(dirV) |-> dirV[j] * dirV[j] + dirH[j] * dirH[j]],
                        Len(dirV))} :
         \E img \in {RectImage(PlateauSize.w, PlateauSize.h, probe.bg, probe.bg, 0, 0, 0, 0)} :
           outcome' = [kind |-> "found", mag2 |-> mag2, thr2 |-> threshold2(mag2),
                       pts |-> scanPoints(mag2, dirH, dirV, PlateauSize.w, PlateauSize.h,
                                          probe.borderColor, img),
                       found |-> findCardEdges(mag2, dirH, dirV, PlateauSize.w, PlateauSize.h,
                                               probe.borderColor, img)]
  /\ UNCHANGED <<callVars, probe>>

NextPlateau == FindOnPlateau

SpecPlateau == InitPlateau /\ [][NextPlateau]_vars

NonZero(mag2) == {j \in DOMAIN mag2 : mag2[j] > 0}

AtMaximum(mag2) == {j \in DOMAIN mag2 : \A i \in DOMAIN mag2 : mag2[i] <= mag2[j]}

\* More than 15% of the non-zero magnitudes equal the maximum magnitude.
PlateauAboveShare(mag2) ==
  /\ NonZero(mag2) # {}
  /\ 100 * Cardinality(AtMaximum(mag2)) > 15 * Cardinality(NonZero(mag2))

NoPointAnywhere(pts) ==
  pts.left = <<>> /\ pts.right = <<>> /\ pts.top = <<>> /\ pts.bottom = <<>>

\* C26: when more than 15% of the non-zero magnitudes equal the maximum
\* magnitude, the threshold equals that maximum and findCardEdges collects no
\* edge point on any side: the four edges are the ones formed from the
\* defaults and the edge confidence is 0.
C26_PlateauBlindsScan ==
  (outcome.kind = "found" /\ PlateauAboveShare(outcome.mag2)) =>
    /\ \A j \in DOMAIN outcome.mag2 : outcome.mag2[j] <= outcome.thr2
    /\ \E j \in DOMAIN outcome.mag2 : outcome.mag2[j] = outcome.thr2
    /\ NoPointAnywhere(outcome.pts)
    /\ outcome.found.edges
         = clampedEdges(aspectCorrected([left |-> Rat(PlateauSize.w, 20),
                                         right |-> Rat(19 * PlateauSize.w, 20),
                                         top |-> Rat(PlateauSize.h, 20),
                                         bottom |-> Rat(19 * PlateauSize.h, 20)], outcome.pts),
                        PlateauSize.w, PlateauSize.h)
    /\ outcome.found.confidence = RInt(0)

\* Two full-height columns of strong vertical strength over a weak field:
\* 24 of the 144 non-zero magnitudes share the maximum, and no point is
\* collected although every left and right scan line crosses a strong pixel.
C26_Witness ==
  /\ outcome.kind = "found"
  /\ probe.vcols = {2, 9} /\ probe.vlen = 12 /\ probe.weak = 3 /\ probe.hrows = {}
  /\ probe.strong = 40
  /\ Cardinality(NonZero(outcome.mag2)) = 144
  /\ Cardinality(AtMaximum(outcome.mag2)) = 24
  /\ outcome.thr2 = 1600
  /\ NoPointAnywhere(outcome.pts)
  /\ outcome.found.confidence = RInt(0)

----------------------------------------------------------------------------
(* 32. measureEdgesSubpixel on coarse edges inside the image               *)

\* Sizes <<w, h>> of the rasters: one pixel wide or high, small, and longer
\* than a strip.
SubpixelSizes == { <<1, 4>>, <<4, 1>>, <<2, 3>>, <<6, 8>>, <<45, 4>>, <<4, 45>> }

\* A raster of the size with a rectangle over its middle; bg = fg = black
\* gives a buffer that is 0 everywhere.
SubpixelImage(p) ==
  RectImage(p.size[1], p.size[2], p.bg, p.fg,
            p.size[1] \div 3, p.size[1] - (p.size[1] \div 3),
            p.size[2] \div 3, p.size[2] - (p.size[2] \div 3))

\* Coarse edges as findCardEdges returns them: integers inside the image.
SubpixelEdges(p) ==
  [left   |-> RInt(IF p.l = 0 THEN 0 ELSE p.size[1] \div (2 * p.l)),
   right  |-> RInt(IF p.r = 0 THEN p.size[1] - 1 ELSE p.size[1] \div 2),
   top    |-> RInt(IF p.t = 0 THEN 0 ELSE p.size[2] \div (2 * p.t)),
   bottom |-> RInt(IF p.b = 0 THEN p.size[2] - 1 ELSE p.size[2] \div 2)]

InitSubpixel ==
  /\ NoCalls
  /\ probe \in [kind : {"subpixel"}, size : SubpixelSizes, bg : {P.black, P.white},
                fg : {P.black, P.yellow}, l : {0, 1, 2}, r : {0, 1}, t : {0, 1, 2}, b : {0, 1}]
  /\ outcome = NoOutcome

\* Lines 779-781: the gradient field of the raster and the sub-pixel
\* measurement on its blurred buffer.
Measure ==
  /\ probe.kind = "subpixel"
  /\ outcome = NoOutcome
  /\ \E img \in {SubpixelImage(probe)} : \E e \in {SubpixelEdges(probe)} :
       \E grad \in {buildGradient(img)} :
         outcome' =
           [kind |-> "measured", w |-> img.w, h |-> img.h, coarse |-> e,
            gray |-> grad.blurred,
            strips |-> [left   |-> stripIndices(e.left, img.w, e.top, e.bottom, img.w, TRUE),
                        right  |-> stripIndices(e.right, img.w, e.top, e.bottom, img.w, TRUE),
                        top    |-> stripIndices(e.top, img.h, e.left, e.right, img.w, FALSE),
                        bottom |-> stripIndices(e.bottom, img.h, e.left, e.right, img.w, FALSE)],
            edges |-> measureEdgesSubpixel(grad.blurred, img.w, img.h, e)]
  /\ UNCHANGED <<callVars, probe>>

NextSubpixel == Measure

SpecSubpixel == InitSubpixel /\ [][NextSubpixel]_vars

Sides == {"left", "right", "top", "bottom"}

\* The size of the image across a side.
Across(side) == IF side \in {"left", "right"} THEN outcome.w ELSE outcome.h

StripLow(side) == Max(0, RRound(outcome.coarse[side]) - 20)

StripHigh(side) == Min(Across(side) - 1, RRound(outcome.coarse[side]) + 20)

InsideStrip(side) ==
  /\ RLeq(RInt(StripLow(side)), outcome.edges[side])
  /\ RLeq(outcome.edges[side], RInt(StripHigh(side)))

ReadsInBounds ==
  \A side \in Sides : \A i \in 1..numSamples :
    \A k \in DOMAIN outcome.strips[side][i] :
      /\ outcome.strips[side][i][k] >= 0
      /\ outcome.strips[side][i][k] < outcome.w * outcome.h

\* C27 as stated: every read is at an in-bounds index and the position
\* returned for each side lies within [max(0, c - 20), min(dim - 1, c + 20)].
C27_InsideStrip ==
  outcome.kind = "measured" =>
    /\ ReadsInBounds
    /\ \A side \in Sides : InsideStrip(side)

\* C27, amended: every read is at an in-bounds index; the position returned
\* for a side lies within [max(0, c - 20), min(dim - 1, c + 20)] when the
\* image is at least 2 pixels across that side, and is 1/2, outside the
\* one-sample strip [0, 0], when it is 1 pixel across.
C27_InsideStripUnlessOneSample ==
  outcome.kind = "measured" =>
    /\ ReadsInBounds
    /\ \A side \in Sides :
         IF Across(side) >= 2 THEN InsideStrip(side)
         ELSE outcome.edges[side] = <<1, 2>>

\* A raster longer than a strip: the left strips start at column 2, not at
\* the border, and the measured left edge moved inside its strip.
C27_Witness ==
  /\ outcome.kind = "measured"
  /\ outcome.w = 45
  /\ StripLow("left") = 2 /\ StripHigh("left") = 42
  /\ InsideStrip("left")
  /\ outcome.edges.left # outcome.coarse.left
  /\ outcome.edges.left # RInt(StripLow("left"))
  /\ ReadsInBounds

----------------------------------------------------------------------------
(* 33. Sides whose strips are all flat                                     *)

\* Every sample strip of the side holds one luminance value throughout.
AllStripsFlat(side) ==
  \A i \in 1..numSamples :
    \A k \in DOMAIN outcome.strips[side][i] :
      At(outcome.gray, outcome.strips[side][i][k]) = At(outcome.gray, outcome.strips[side][i][1])

\* C28: a side whose sample strips are all flat keeps its coarse position.
C28_FlatSideUnmoved ==
  outcome.kind = "measured" =>
    \A side \in Sides :
      AllStripsFlat(side) => outcome.edges[side] = outcome.coarse[side]

----------------------------------------------------------------------------
(* 34. What the re-entry leaves alone                                      *)

\* C29: in the result of a call, borderColor, the corners, the overall
\* confidence and the background recommendation are the values of the first
\* pass on the original image, whether or not the image was rectified and
\* the edges were detected again: the background is analysed on the original
\* image within the first-pass coarse edges, and the confidence is formed
\* from the first-pass edge confidence.
C29_ReEntryChangesEdgesOnly ==
  \A c \in Calls :
    Done(c) =>
      LET fp == FirstPassOf[input[c]]
      IN  /\ result[c].info.borderColor = fp.borderColor
          /\ result[c].corners = fp.rawCorners
          /\ result[c].info.confidence = overallConfidence(fp.colorConfidence, fp.edgeConfidence)
          /\ result[c].info.backgroundRecommendation
               = getBackgroundRecommendation(fp.borderColor,
                                             analyzeBackground(Scenes[input[c]], fp.rawEdges))

\* A call that returned after the whole re-entry: its edges are those of the
\* rectified image, and the second findCardEdges call had a confidence other
\* than the first one's.
C29_Witness ==
  \E c \in Calls :
    /\ Done(c)
    /\ trace[c] = StagesOfCall(3)
    /\ result[c].info.perspectiveCorrected
    /\ result[c].edges # FirstPassOf[input[c]].edges
    /\ locateEdges(frames[Frame(c)].corrData, frames[Frame(c)].corrGradient.sobel,
                   frames[Frame(c)].borderColor).confidence
         # FirstPassOf[input[c]].edgeConfidence
    /\ result[c].info.confidence
         = overallConfidence(FirstPassOf[input[c]].colorConfidence,
                             FirstPassOf[input[c]].edgeConfidence)

\* ---------------------------------------------------------------------------
\* 35. Card history: saveCard and deleteCard as interleaved read-modify-write
\*     sequences over the stored list (storage module).
\* ---------------------------------------------------------------------------

\* `cards.slice(0, 50)`.
HistoryCap == 50

\* Number of history calls in flight at once.
NumHistoryCalls == 3

HistoryCallIds == 1..NumHistoryCalls

\* A stored history of n cards, newest first; the cards are their ids.
StoredHistory(n) == [k \in 1..n |-> 100 + k]

\* The histories the calls start from: empty, short, one below the cap, full.
StoredHistories == {StoredHistory(n) : n \in {0, 2, HistoryCap - 1, HistoryCap}}

\* What a call is asked to do. The card saved by call i has id i.
HistoryOps == {[op |-> "save", id |-> 0], [op |-> "delete", id |-> 1], [op |-> "delete", id |-> 101]}

cardOf(calls, i) == IF calls[i].op = "save" THEN i ELSE calls[i].id

\* `cards.unshift(card); cards.slice(0, 50)`.
unshiftAndTrim(cards, card) == SubSeq(<<card>> \o cards, 1, IF Len(cards) + 1 < HistoryCap THEN Len(cards) + 1 ELSE HistoryCap)

\* `cards.filter(card => card.id !== cardId)`.
filterOut(cards, cardId) == SelectSeq(cards, LAMBDA card : card # cardId)

InitHistory ==
  /\ NoCalls
  /\ probe \in {[kind |-> "history", initial |-> s, calls |-> f] :
                  s \in StoredHistories, f \in [HistoryCallIds -> HistoryOps]}
  /\ outcome = [kind   |-> "history",
                stored |-> probe.initial,
                at     |-> [i \in HistoryCallIds |-> "called"],
                cards  |-> [i \in HistoryCallIds |-> <<>>]]

\* `const cards = await getCardHistory()`: the get of call i is served and
\* the call resumes with the list stored at that moment (`cards || []`).
getCardHistory(i) ==
  /\ probe.kind = "history"
  /\ outcome.at[i] = "called"
  /\ outcome' = [outcome EXCEPT !.at[i] = "read", !.cards[i] = outcome.stored]
  /\ UNCHANGED <<callVars, probe>>

\* The rest of saveCard after the await: unshift, slice, set.
saveCard(i) ==
  /\ probe.kind = "history"
  /\ probe.calls[i].op = "save"
  /\ outcome.at[i] = "read"
  /\ outcome' = [outcome EXCEPT !.at[i] = "done",
                                !.stored = unshiftAndTrim(outcome.cards[i], cardOf(probe.calls, i))]
  /\ UNCHANGED <<callVars, probe>>

\* The rest of deleteCard after the await: filter, set.
deleteCard(i) ==
  /\ probe.kind = "history"
  /\ probe.calls[i].op = "delete"
  /\ outcome.at[i] = "read"
  /\ outcome' = [outcome EXCEPT !.at[i] = "done",
                                !.stored = filterOut(outcome.cards[i], cardOf(probe.calls, i))]
  /\ UNCHANGED <<callVars, probe>>

NextHistory ==
  \E i \in HistoryCallIds : getCardHistory(i) \/ saveCard(i) \/ deleteCard(i)

SpecHistory == InitHistory /\ [][NextHistory]_vars

\* The list left by running the calls one at a time in the given order,
\* starting with the k-th of the order.
RECURSIVE oneAtATime(_, _, _, _)
oneAtATime(cards, calls, order, k) ==
  IF k > NumHistoryCalls THEN cards
  ELSE oneAtATime(IF calls[order[k]].op = "save"
                    THEN unshiftAndTrim(cards, cardOf(calls, order[k]))
                    ELSE filterOut(cards, cardOf(calls, order[k])),
                  calls, order, k + 1)

HistorySettled == \A i \in HistoryCallIds : outcome.at[i] = "done"

StoredIds == {outcome.stored[k] : k \in 1..Len(outcome.stored)}

DeletedIds == {cardOf(probe.calls, i) : i \in {j \in HistoryCallIds : probe.calls[j].op = "delete"}}

SavedIds == {i \in HistoryCallIds : probe.calls[i].op = "save"}

\* C30: history updates are not lost under interleaving. Once every
\* saveCard and deleteCard call has completed, the stored history is what the
\* calls leave when run one at a time in some order (so newest first, and cut
\* to the 50 most recent), it holds at most 50 cards, and while the cap is not
\* reached it contains every saved card that no call deleted.
C30_NoLostUpdate ==
  (probe.kind = "history" /\ HistorySettled) =>
    /\ Len(outcome.stored) <= HistoryCap
    /\ \E order \in Permutations(HistoryCallIds) :
         outcome.stored = oneAtATime(probe.initial, probe.calls, order, 1)
    /\ Len(probe.initial) + Cardinality(SavedIds) <= HistoryCap
         => (SavedIds \ DeletedIds) \subseteq StoredIds

====
